---------------------------- MODULE Spec2Model ----------------------------
(***************************************************************************)
(* Symbol obfuscator (devalgupta404/oaas, symbol-obfuscator/): the         *)
(* crypto-hasher, the mangled-name codec, the IR pass driver and the       *)
(* source-text driver, as state machines.                                  *)
(*                                                                         *)
(* Strings are sequences of one-character strings, so that concatenation,  *)
(* substr, prefix tests and length prefixes are computed as the code       *)
(* computes them.                                                          *)
(*                                                                         *)
(* The hash primitives (OpenSSL SHA-256 / BLAKE2b-512, SipHash-2-4) are    *)
(* uninterpreted: the variable oracle remembers, for every input hashed so *)
(* far, which of NumDigests digest values the primitive returned; an input *)
(* hashed for the first time may get any of them.  Two inputs with the     *)
(* same digest value are a collision of the primitive (as happens for the  *)
(* truncated hashes the program uses).                                     *)
(***************************************************************************)
EXTENDS Integers, Sequences, FiniteSets, TLC

\* ------------------------------------------------------------------ bounds
\* Number of distinct digest values the hash primitive may return.
NumDigests == 2
\* Stands for the 10000 of crypto_hasher.cpp:109 (the collision-counter limit),
\* scaled down so that the exhaustion case is reachable.
CollisionLimit == 2

DigestIds == 0 .. (NumDigests - 1)
Runs == {1, 2}

\* ------------------------------------------------------------------ strings
Digits == <<"0", "1", "2", "3", "4", "5", "6", "7", "8", "9">>
HexDigits == <<"0", "1", "2", "3", "4", "5", "6", "7", "8", "9",
               "a", "b", "c", "d", "e", "f">>

IsDigit(c) == \E i \in 1..10 : Digits[i] = c

DigitVal(c) == (CHOOSE i \in 1..10 : Digits[i] = c) - 1

RECURSIVE to_string(_)
to_string(n) ==
    IF n < 10 THEN <<Digits[n + 1]>>
    ELSE to_string(n \div 10) \o <<Digits[(n % 10) + 1]>>

\* std::string::substr(pos, len), 0-based pos, clamped at the end of s.
Substr(s, pos, len) ==
    LET last == IF pos + len > Len(s) THEN Len(s) ELSE pos + len
    IN  IF pos >= Len(s) THEN <<>> ELSE SubSeq(s, pos + 1, last)

\* s.substr(0, Len(p)) == p
StartsWith(s, p) == Substr(s, 0, Len(p)) = p

IsHexString(s, n) == Len(s) = n /\ \A i \in 1..n : (\E k \in 1..Len(HexDigits) : HexDigits[k] = s[i])

\* std::string::npos
npos == -1

\* std::isalpha, std::isalnum in the "C" locale.
Letters ==
    {"a", "b", "c", "d", "e", "f", "g", "h", "i", "j", "k", "l", "m",
     "n", "o", "p", "q", "r", "s", "t", "u", "v", "w", "x", "y", "z",
     "A", "B", "C", "D", "E", "F", "G", "H", "I", "J", "K", "L", "M",
     "N", "O", "P", "Q", "R", "S", "T", "U", "V", "W", "X", "Y", "Z"}

isalpha(c) == c \in Letters

isalnum(c) == isalpha(c) \/ IsDigit(c)

\* std::stoi on a decimal argument: an optional sign, then the longest run of
\* digits; std::invalid_argument when there is no digit. (Arguments here are
\* short enough to stay inside int.)
RECURSIVE DigitRun(_, _, _)
DigitRun(str, i, acc) ==
    IF i <= Len(str) /\ IsDigit(str[i])
    THEN DigitRun(str, i + 1, 10 * acc + DigitVal(str[i]))
    ELSE [next |-> i, value |-> acc]

StoiFrom(str, first, negative) ==
    IF DigitRun(str, first, 0).next = first
    THEN [threw |-> TRUE, value |-> 0]
    ELSE [threw |-> FALSE,
          value |-> IF negative THEN 0 - DigitRun(str, first, 0).value
                    ELSE DigitRun(str, first, 0).value]

stoi(str) ==
    IF str # <<>> /\ str[1] = "-" THEN StoiFrom(str, 2, TRUE)
    ELSE IF str # <<>> /\ str[1] = "+" THEN StoiFrom(str, 2, FALSE)
    ELSE StoiFrom(str, 1, FALSE)

\* ------------------------------------------------------------------ names
S_us     == <<"_">>
S_f      == <<"f", "_">>
S_v      == <<"v", "_">>
S_C      == <<"C", "_">>
S_N      == <<"N", "_">>
S_a      == <<"a", "_">>
S_s      == <<"s", "_">>
S_k      == <<"k">>
S_float == <<"f", "l", "o", "a", "t">>
S_double == <<"d", "o", "u", "b", "l", "e">>
S_long == <<"l", "o", "n", "g">>
S_short == <<"s", "h", "o", "r", "t">>
S_voidstar == <<"v", "o", "i", "d", "*">>
S_size_t == <<"s", "i", "z", "e", "_", "t">>
S_uint == <<"u", "i", "n", "t">>
S_us_t == <<"_", "t">>
S_foo    == <<"f", "o", "o">>
S_bar    == <<"b", "a", "r">>
S_main   == <<"m", "a", "i", "n">>
S_Z      == <<"_", "Z">>
S_ZTV    == <<"_", "Z", "T", "V">>
S_ZTI    == <<"_", "Z", "T", "I">>
S_ZTS    == <<"_", "Z", "T", "S">>
S_E      == <<"E">>
S_ctx_ns == <<"n", "s">>
S_ctx_class == <<"c", "l", "a", "s", "s">>
S_ctx_method == <<"m", "e", "t", "h", "o", "d">>
S_ctx_vtable == <<"v", "t", "a", "b", "l", "e">>
S_ctx_typeinfo == <<"t", "y", "p", "e", "i", "n", "f", "o">>
S_ctx_module_salt == <<"m", "o", "d", "u", "l", "e", "_", "s", "a", "l", "t">>
S_coloncolon == <<":", ":">>
S_int    == <<"i", "n", "t">>
S_char   == <<"c", "h", "a", "r">>

\* Mangled names: two methods of MyClass and its vtable, typeinfo and
\* typeinfo name; the literal example of the specification, whose length
\* prefix 6 is one short of "MyClass"; two overloads of ns::Cls::foo; a
\* non-nested function; the vtable of a class in a namespace; a nested name
\* whose length prefix exceeds the input.
M_method  == <<"_", "Z", "N", "7", "M", "y", "C", "l", "a", "s", "s", "6", "m", "e", "t", "h", "o", "d", "E", "v">>
M_method2 == <<"_", "Z", "N", "7", "M", "y", "C", "l", "a", "s", "s", "7", "m", "e", "t", "h", "o", "d", "2", "E", "v">>
M_vtable  == <<"_", "Z", "T", "V", "7", "M", "y", "C", "l", "a", "s", "s">>
M_typeinfo == <<"_", "Z", "T", "I", "7", "M", "y", "C", "l", "a", "s", "s">>
M_tiname  == <<"_", "Z", "T", "S", "7", "M", "y", "C", "l", "a", "s", "s">>
M_s4      == <<"_", "Z", "N", "6", "M", "y", "C", "l", "a", "s", "s", "6", "m", "e", "t", "h", "o", "d", "E", "v">>
M_foo_v   == <<"_", "Z", "N", "2", "n", "s", "3", "C", "l", "s", "3", "f", "o", "o", "E", "v">>
M_foo_i   == <<"_", "Z", "N", "2", "n", "s", "3", "C", "l", "s", "3", "f", "o", "o", "E", "i">>
M_flat_i  == <<"_", "Z", "3", "f", "o", "o", "i">>
M_vtable_ns == <<"_", "Z", "T", "V", "N", "2", "n", "s", "3", "C", "l", "s", "E">>
M_bad_len == <<"_", "Z", "N", "9", "a", "b">>
M_bad_after == <<"_", "Z", "N", "3", "f", "o", "o", "9", "a", "b">>

S_strlen == <<"s", "t", "r", "l", "e", "n">>
S_validate_password ==
    <<"v", "a", "l", "i", "d", "a", "t", "e", "_", "p", "a", "s", "s", "w",
      "o", "r", "d">>
S_MASTER_PASSWORD ==
    <<"M", "A", "S", "T", "E", "R", "_", "P", "A", "S", "S", "W", "O", "R",
      "D">>
S_strcmp == <<"s", "t", "r", "c", "m", "p">>
S_printf == <<"p", "r", "i", "n", "t", "f">>
S_uu == <<"_", "_">>
S_uu_init == <<"_", "_", "i", "n", "i", "t">>
S_cxa == <<"_", "_", "c", "x", "a">>
S_llvm_dot == <<"l", "l", "v", "m", ".">>
S_llvm_used == <<"l", "l", "v", "m", ".", "u", "s", "e", "d">>
S_helper == <<"h", "e", "l", "p", "e", "r">>

\* CSymbolObfuscator::shouldPreserve's cpp_keywords.
cpp_keywords ==
    {<<"i", "f">>,
     <<"e", "l", "s", "e">>,
     <<"f", "o", "r">>,
     <<"w", "h", "i", "l", "e">>,
     <<"d", "o">>,
     <<"s", "w", "i", "t", "c", "h">>,
     <<"c", "a", "s", "e">>,
     <<"d", "e", "f", "a", "u", "l", "t">>,
     <<"b", "r", "e", "a", "k">>,
     <<"c", "o", "n", "t", "i", "n", "u", "e">>,
     <<"r", "e", "t", "u", "r", "n">>,
     <<"g", "o", "t", "o">>,
     <<"i", "n", "t">>,
     <<"c", "h", "a", "r">>,
     <<"f", "l", "o", "a", "t">>,
     <<"d", "o", "u", "b", "l", "e">>,
     <<"v", "o", "i", "d">>,
     <<"l", "o", "n", "g">>,
     <<"s", "h", "o", "r", "t">>,
     <<"s", "i", "g", "n", "e", "d">>,
     <<"u", "n", "s", "i", "g", "n", "e", "d">>,
     <<"c", "o", "n", "s", "t">>,
     <<"s", "t", "a", "t", "i", "c">>,
     <<"e", "x", "t", "e", "r", "n">>,
     <<"r", "e", "g", "i", "s", "t", "e", "r">>,
     <<"v", "o", "l", "a", "t", "i", "l", "e">>,
     <<"a", "u", "t", "o">>,
     <<"s", "t", "r", "u", "c", "t">>,
     <<"u", "n", "i", "o", "n">>,
     <<"e", "n", "u", "m">>,
     <<"t", "y", "p", "e", "d", "e", "f">>,
     <<"s", "i", "z", "e", "o", "f">>,
     <<"t", "y", "p", "e", "o", "f">>,
     <<"c", "l", "a", "s", "s">>,
     <<"p", "u", "b", "l", "i", "c">>,
     <<"p", "r", "i", "v", "a", "t", "e">>,
     <<"p", "r", "o", "t", "e", "c", "t", "e", "d">>,
     <<"v", "i", "r", "t", "u", "a", "l">>,
     <<"f", "r", "i", "e", "n", "d">>,
     <<"n", "a", "m", "e", "s", "p", "a", "c", "e">>,
     <<"u", "s", "i", "n", "g">>,
     <<"t", "e", "m", "p", "l", "a", "t", "e">>,
     <<"t", "y", "p", "e", "n", "a", "m", "e">>,
     <<"n", "e", "w">>,
     <<"d", "e", "l", "e", "t", "e">>,
     <<"t", "h", "i", "s">>,
     <<"o", "p", "e", "r", "a", "t", "o", "r">>,
     <<"t", "r", "y">>,
     <<"c", "a", "t", "c", "h">>,
     <<"t", "h", "r", "o", "w">>,
     <<"t", "r", "u", "e">>,
     <<"f", "a", "l", "s", "e">>,
     <<"n", "u", "l", "l", "p", "t", "r">>,
     <<"N", "U", "L", "L">>,
     <<"a", "n", "d">>,
     <<"o", "r">>,
     <<"n", "o", "t">>,
     <<"x", "o", "r">>,
     <<"m", "a", "i", "n">>}

\* SymbolObfuscationPass::isSystemSymbol's stdlib_funcs.
stdlib_funcs ==
    {<<"m", "a", "l", "l", "o", "c">>,
     <<"f", "r", "e", "e">>,
     <<"c", "a", "l", "l", "o", "c">>,
     <<"r", "e", "a", "l", "l", "o", "c">>,
     <<"p", "r", "i", "n", "t", "f">>,
     <<"s", "c", "a", "n", "f">>,
     <<"f", "p", "r", "i", "n", "t", "f">>,
     <<"s", "p", "r", "i", "n", "t", "f">>,
     <<"m", "e", "m", "c", "p", "y">>,
     <<"m", "e", "m", "s", "e", "t">>,
     <<"s", "t", "r", "l", "e", "n">>,
     <<"s", "t", "r", "c", "m", "p">>,
     <<"e", "x", "i", "t">>,
     <<"a", "b", "o", "r", "t">>,
     <<"s", "i", "g", "n", "a", "l">>,
     <<"s", "i", "g", "a", "c", "t", "i", "o", "n">>}

\* ObfuscationConfig::preserve_symbols as declared.
DefaultPreserveSymbols ==
    {<<"m", "a", "i", "n">>,
     <<"_", "s", "t", "a", "r", "t">>,
     <<"_", "_", "l", "i", "b", "c", "_", "s", "t", "a", "r", "t", "_", "m", "a", "i", "n">>,
     <<"s", "i", "g", "n", "a", "l">>,
     <<"s", "i", "g", "a", "c", "t", "i", "o", "n">>,
     <<"_", "i", "n", "i", "t">>,
     <<"_", "f", "i", "n", "i">>,
     <<"_", "_", "a", "t", "t", "r", "i", "b", "u", "t", "e", "_", "_">>}

\* ObfuscationConfig::preserve_patterns as declared: each is ^ followed by a
\* literal, held here as the literal a matching name starts with.
DefaultPreservePatterns == <<S_uu, S_Z, S_llvm_dot, <<"_", "_", "c", "x", "a", "_">>>>

\* SymbolObfuscationPass::initializePreserveSet.
PassPreserveSymbols ==
    {<<"m", "a", "i", "n">>,
     <<"_", "s", "t", "a", "r", "t">>,
     <<"_", "_", "l", "i", "b", "c", "_", "s", "t", "a", "r", "t", "_", "m", "a", "i", "n">>,
     <<"_", "i", "n", "i", "t">>,
     <<"_", "f", "i", "n", "i">>,
     <<"_", "_", "a", "t", "t", "r", "i", "b", "u", "t", "e", "_", "_">>,
     <<"_", "_", "c", "x", "a", "_", "a", "t", "e", "x", "i", "t">>,
     <<"_", "_", "c", "x", "a", "_", "f", "i", "n", "a", "l", "i", "z", "e">>,
     <<"_", "_", "d", "s", "o", "_", "h", "a", "n", "d", "l", "e">>,
     <<"_", "_", "g", "x", "x", "_", "p", "e", "r", "s", "o", "n", "a", "l", "i", "t", "y", "_", "v", "0">>,
     <<"_", "G", "L", "O", "B", "A", "L", "_", "_", "s", "u", "b", "_", "I", "_">>}

\* ------------------------------------------------------------------ state
VARIABLES
    config_,        \* CryptoHasher::config_ (HashConfig), the same for every run
    oracle,         \* digest value of every input the primitives have hashed
    used_hashes_,   \* CryptoHasher::used_hashes_, per hasher instance
    call,           \* the last call made on the hasher or the codec
    mangler_mapping_,   \* CppMangler::mapping_
    namespace_cache_,   \* CppMangler::namespace_cache_
    class_cache_,       \* CppMangler::class_cache_
    method_cache_,      \* CppMangler::method_cache_
    opts,           \* CliOptions of the command line (the flags that reach the driver)
    obf_config_,    \* CSymbolObfuscator::config_ (ObfuscationConfig)
    unit,           \* the declarations the two regular expressions match in the input
    symbols,        \* obfuscateSymbols' local `symbols`, per run
    mapping,        \* obfuscateSymbols' local `mapping`, per run
    mappings_,      \* CSymbolObfuscator::mappings_, per run
    source_code,    \* the content of the input file
    obfuscated_code, \* the content of each run's output file
    mapping_file,   \* the content of each run's mapping file
    used_names_,    \* the driver's used_names_, per run
    pc,             \* where each driver run stands
    idx,            \* the loop position of each driver run
    preserve_main_,     \* SymbolObfuscationPass::preserve_main_
    preserve_stdlib_,   \* SymbolObfuscationPass::preserve_stdlib_
    obfuscate_globals_, \* SymbolObfuscationPass::obfuscate_globals_
    generate_map_,      \* SymbolObfuscationPass::generate_map_
    salt_,              \* SymbolObfuscationPass::salt_
    preserve_symbols_,  \* SymbolObfuscationPass::preserve_symbols_
    mapping_,           \* SymbolObfuscationPass::mapping_
    module,             \* the llvm::Module the pass runs on
    map_file            \* the mapping file saveMapping writes

hasherVars == <<config_, oracle, used_hashes_>>
manglerVars == <<mangler_mapping_, namespace_cache_, class_cache_, method_cache_>>
textVars == <<opts, obf_config_, unit, symbols, mapping, mappings_,
              source_code, obfuscated_code, mapping_file>>
runVars == <<used_names_, pc, idx>>
passVars == <<preserve_main_, preserve_stdlib_, obfuscate_globals_, generate_map_,
              salt_, preserve_symbols_, mapping_, module, map_file>>
driverVars == <<textVars, runVars, passVars>>
vars == <<hasherVars, call, manglerVars, driverVars>>

\* ------------------------------------------------------------------ hasher
Algorithms == {"SHA256", "BLAKE2B", "SIPHASH"}
PrefixStyles == {"NONE", "TYPED", "UNDERSCORE"}

\* The bytes of digest value d: different values differ in every byte, and
\* the first hex character is a letter for even d and a digit for odd d.
DigestBytes(d, n) == [i \in 1..n |-> (167 + 149 * d + 17 * (i - 1)) % 256]

\* CryptoHasher::hexEncode: two lower-case hex characters per byte.
RECURSIVE hexEncode(_)
hexEncode(data) ==
    IF data = <<>> THEN <<>>
    ELSE <<HexDigits[(Head(data) \div 16) + 1], HexDigits[(Head(data) % 16) + 1]>>
         \o hexEncode(Tail(data))

\* What identifies one evaluation of the configured primitive: SipHash is
\* keyed by k0, k1 derived from the salt; the other two are unkeyed.
OracleKey(cfg, input) ==
    <<cfg.algorithm,
      IF cfg.algorithm = "SIPHASH" THEN cfg.global_salt ELSE <<>>,
      input>>

\* SHA256 gives 32 bytes, EVP_blake2b512 64 bytes, SipHash a 64-bit value
\* printed as 16 zero-padded hex characters.
Sha256Hex == [d \in DigestIds |-> hexEncode(DigestBytes(d, 32))]
Blake2bHex == [d \in DigestIds |-> hexEncode(DigestBytes(d, 64))]
SipHashHex == [d \in DigestIds |-> hexEncode(DigestBytes(d, 8))]

sha256Hash(h, cfg, input) == Sha256Hex[h[OracleKey(cfg, input)]]
blake2bHash(h, cfg, input) == Blake2bHex[h[OracleKey(cfg, input)]]
sipHash(h, cfg, input) == SipHashHex[h[OracleKey(cfg, input)]]

\* A size_t is held as the signed integer with the same 64 bits: v < 0 stands
\* for 2^64 + v. SizeLE is <= on the unsigned values.
SizeLE(a, b) == IF (a >= 0) = (b >= 0) THEN a <= b ELSE a >= 0

truncateHash(full_hash, length) ==
    IF SizeLE(Len(full_hash), length) THEN full_hash ELSE Substr(full_hash, 0, length)

\* The string the primitive is applied to.
HashInput(cfg, original_name, context_salt) ==
    cfg.global_salt \o context_salt \o original_name

\* generateHash's switch on the configured algorithm.
HashOf(h, cfg, input) ==
    CASE cfg.algorithm = "SHA256" -> sha256Hash(h, cfg, input)
      [] cfg.algorithm = "BLAKE2B" -> blake2bHash(h, cfg, input)
      [] cfg.algorithm = "SIPHASH" -> sipHash(h, cfg, input)

generateHash(h, cfg, original_name, context_salt) ==
    truncateHash(HashOf(h, cfg, HashInput(cfg, original_name, context_salt)),
                 cfg.hash_length)

applyPrefix_NoDigitTest(cfg, hash, prefix) ==
    IF prefix # <<>> THEN prefix \o hash
    ELSE IF cfg.prefix_style = "UNDERSCORE" THEN S_us \o hash
    ELSE hash

applyPrefix(cfg, hash, prefix) ==
    IF prefix # <<>> THEN prefix \o hash
    ELSE IF cfg.prefix_style = "UNDERSCORE" THEN S_us \o hash
    ELSE IF cfg.prefix_style = "NONE"
         THEN IF hash # <<>> /\ IsDigit(hash[1]) THEN S_s \o hash ELSE hash
    ELSE hash

\* name + "_" + std::to_string(counter)
CounterName(name, counter) == name \o S_us \o to_string(counter)

\* The identifiers generateUniqueHash compares against: the caller's set and
\* the hasher's own (the while condition of crypto_hasher.cpp:104).
IsUsed_CallerOnly(full_name, used_hashes, own) == full_name \in used_hashes

IsUsed(full_name, used_hashes, own) == full_name \in used_hashes \/ full_name \in own

\* if (counter > 10000) throw, with the limit scaled to CollisionLimit.
TooManyCollisions_OffByOne(counter) == counter >= CollisionLimit

TooManyCollisions(counter) == counter > CollisionLimit

\* The while loop of generateUniqueHash, entered with candidate full_name and
\* the counter value.
RECURSIVE UniqueLoop(_, _, _, _, _, _, _, _)
RECURSIVE UniqueLoopBody(_, _, _, _, _, _, _, _)
\* The while loop of generateUniqueHash, entered with full_name and counter:
\* the loop test, then (UniqueLoopBody) the counter check on the re-hashed
\* candidate `next`.
UniqueLoop(h, cfg, name, used_hashes, own, prefix, full_name, counter) ==
    IF ~IsUsed(full_name, used_hashes, own)
    THEN [threw |-> FALSE, full_name |-> full_name, counter |-> counter]
    ELSE UniqueLoopBody(h, cfg, name, used_hashes, own, prefix,
             applyPrefix(cfg, generateHash(h, cfg, CounterName(name, counter), <<>>), prefix),
             counter + 1)

UniqueLoopBody(h, cfg, name, used_hashes, own, prefix, next, counter) ==
    IF TooManyCollisions(counter)
    THEN [threw |-> TRUE, full_name |-> next, counter |-> counter]
    ELSE UniqueLoop(h, cfg, name, used_hashes, own, prefix, next, counter)

UniqueOutcome_InsertFirst(used_hashes, own, out) ==
    [threw |-> out.threw, result |-> IF out.threw THEN <<>> ELSE out.full_name,
     counter |-> out.counter,
     used_hashes |-> used_hashes \cup {out.full_name},
     own |-> own \cup {out.full_name}]

\* What generateUniqueHash leaves behind once its loop has ended with `out`.
UniqueOutcome(used_hashes, own, out) ==
    IF out.threw
    THEN [threw |-> TRUE, result |-> <<>>, counter |-> out.counter,
          used_hashes |-> used_hashes, own |-> own]
    ELSE [threw |-> FALSE, result |-> out.full_name, counter |-> out.counter,
          used_hashes |-> used_hashes \cup {out.full_name},
          own |-> own \cup {out.full_name}]

\* CryptoHasher::generateUniqueHash on a hasher whose own set is `own`:
\* the outcome, and both sets as the call leaves them.
generateUniqueHash(h, cfg, name, used_hashes, own, prefix) ==
    UniqueOutcome(used_hashes, own,
        UniqueLoop(h, cfg, name, used_hashes, own, prefix,
                   applyPrefix(cfg, generateHash(h, cfg, name, <<>>), prefix), 0))

\* The inputs generateUniqueHash may hand to the primitive, and those it did
\* hand to it when the loop ended with the given counter.
UniqueInputs(cfg, name) ==
    {OracleKey(cfg, HashInput(cfg, name, <<>>))}
    \cup {OracleKey(cfg, HashInput(cfg, CounterName(name, c), <<>>)) : c \in 0..CollisionLimit}

UniqueConsulted(cfg, name, counter) ==
    {OracleKey(cfg, HashInput(cfg, name, <<>>))}
    \cup {OracleKey(cfg, HashInput(cfg, CounterName(name, c), <<>>)) : c \in 0..(counter - 1)}

\* The oracle extended to the inputs in keys (values already drawn are kept).
Extensions(keys) ==
    {[k \in (keys \cup DOMAIN oracle) |->
        IF k \in DOMAIN oracle THEN oracle[k] ELSE e[k]] :
     e \in [keys \ DOMAIN oracle -> DigestIds]}

\* The oracle after a call that evaluated the primitive on `consulted`.
Remember(h, consulted) ==
    [k \in (DOMAIN oracle \cup consulted) |-> h[k]]

\* HashConfig's default member initialisers.
DefaultHashConfig ==
    [algorithm |-> "SHA256", prefix_style |-> "TYPED", hash_length |-> 12,
     global_salt |-> <<>>]

TypedPrefix(cfg, kind) ==
    IF cfg.prefix_style # "TYPED" THEN <<>>
    ELSE CASE kind = "function" -> S_f
           [] kind = "variable" -> S_v
           [] kind = "class" -> S_C
           [] kind = "namespace" -> S_N


\* ------------------------------------------------------------------- codec
EmptyMap == <<>>

InitMangler ==
    /\ mangler_mapping_ = EmptyMap
    /\ namespace_cache_ = EmptyMap
    /\ class_cache_ = EmptyMap
    /\ method_cache_ = EmptyMap

\* m[k] = v added to (or overwritten in) a std::map.
MapPut(m, k, v) == [x \in DOMAIN m \cup {k} |-> IF x = k THEN v ELSE m[x]]

\* CppSymbolComponents after its default member initialisers (the fields the
\* codec reads).
DefaultComponents ==
    [is_mangled |-> FALSE, prefix |-> <<>>,
     has_namespace |-> FALSE, namespace_name |-> <<>>,
     has_class |-> FALSE, class_name |-> <<>>,
     method_name |-> <<>>, parameter_types |-> <<>>,
     is_vtable |-> FALSE, is_typeinfo |-> FALSE, is_typeinfo_name |-> FALSE]

isCppMangled(name) == Len(name) > 2 /\ Substr(name, 0, 2) = S_Z

\* A size_t: the 64 bits as four 16-bit limbs, least significant first.
Limb == 65536

WordZero == <<0, 0, 0, 0>>

\* (w * m + a) modulo 2^64, for small m and a.
WordMulAdd(w, m, a) ==
    LET c1 == w[1] * m + a
        c2 == w[2] * m + (c1 \div Limb)
        c3 == w[3] * m + (c2 \div Limb)
        c4 == w[4] * m + (c3 \div Limb)
    IN  <<c1 % Limb, c2 % Limb, c3 % Limb, c4 % Limb>>

WordIsSmall(w) == w[2] = 0 /\ w[3] = 0 /\ w[4] = 0

\* while (pos < s.length() && isdigit(s[pos])) { len = len*10 + digit; pos++; }
\* with pos counted from 0: the length read, modulo 2^64, and the position
\* after the digits.
RECURSIVE ReadLength(_, _, _)
ReadLength(s, pos, len) ==
    IF pos < Len(s) /\ IsDigit(s[pos + 1])
    THEN ReadLength(s, pos + 1, WordMulAdd(len, 10, DigitVal(s[pos + 1])))
    ELSE [len |-> len, pos |-> pos]

\* pos + len in size_t arithmetic.
LengthEnd(r) == WordMulAdd(r.len, 1, r.pos)

\* `len > 0 && pos + len <= length` as the code computes it.
Fits(r, length) ==
    /\ r.len # WordZero
    /\ WordIsSmall(LengthEnd(r))
    /\ LengthEnd(r)[1] <= length

\* pos after `pos += len`, when Fits.
After(r) == LengthEnd(r)[1]

\* s.substr(pos, len): len characters, or all that are left.
Taken(s, r) ==
    IF WordIsSmall(r.len) THEN Substr(s, r.pos, r.len[1]) ELSE Substr(s, r.pos, Len(s))

\* A length that is positive and does not exceed what is left of the name
\* (no wrap-around: what the Itanium grammar and __cxa_demangle accept).
FitsExactly(r, length) ==
    /\ WordIsSmall(r.len)
    /\ r.len[1] > 0
    /\ r.pos + r.len[1] <= length

\* --- abi::__cxa_demangle, on the part of the Itanium grammar the names of
\* the model use: _Z, a nested name N <source-name>+ E or one <source-name>,
\* then nothing (a variable), v, or builtin parameter codes i and c.  Any
\* other input fails to demangle.
RECURSIVE DemangleNested(_, _, _)
RECURSIVE DemangleComponent(_, _, _)
DemangleNested(s, pos, text) ==
    IF pos >= Len(s) THEN [ok |-> FALSE, text |-> text, pos |-> pos]
    ELSE IF s[pos + 1] = "E" THEN [ok |-> text # <<>>, text |-> text, pos |-> pos + 1]
    ELSE DemangleComponent(s, ReadLength(s, pos, WordZero), text)

DemangleComponent(s, r, text) ==
    IF FitsExactly(r, Len(s))
    THEN DemangleNested(s, After(r),
             IF text = <<>> THEN Taken(s, r)
             ELSE text \o S_coloncolon \o Taken(s, r))
    ELSE [ok |-> FALSE, text |-> text, pos |-> r.pos]

DemangleSingle(s, r) ==
    IF FitsExactly(r, Len(s))
    THEN [ok |-> TRUE, text |-> Taken(s, r), pos |-> After(r)]
    ELSE [ok |-> FALSE, text |-> <<>>, pos |-> r.pos]

\* The <name> of the encoding that follows _Z, and where it ends.
DemangleName(s) ==
    IF Len(s) > 2 /\ s[3] = "N" THEN DemangleNested(s, 3, <<>>)
    ELSE DemangleSingle(s, ReadLength(s, 2, WordZero))

BuiltinType(c) == IF c = "i" THEN S_int ELSE S_char

RECURSIVE DemangleParams(_)
DemangleParams(codes) ==
    IF Len(codes) = 1 THEN BuiltinType(codes[1])
    ELSE BuiltinType(codes[1]) \o <<",", " ">> \o DemangleParams(Tail(codes))

DemangleEncoding(mangled_name, name, rest) ==
    IF ~name.ok THEN mangled_name
    ELSE IF rest = <<>> THEN name.text
    ELSE IF rest = <<"v">> THEN name.text \o <<"(", ")">>
    ELSE IF \A i \in 1..Len(rest) : rest[i] \in {"i", "c"}
         THEN name.text \o <<"(">> \o DemangleParams(rest) \o <<")">>
    ELSE mangled_name

DemangleFrom(mangled_name, name) ==
    DemangleEncoding(mangled_name, name, Substr(mangled_name, name.pos, Len(mangled_name)))

\* CppDemangler::demangle: the demangled form, or the name itself when
\* __cxa_demangle fails.
demangle(mangled_name) == DemangleFrom(mangled_name, DemangleName(mangled_name))

\* One iteration of the nested-name loop of CppDemangler::parse
\* (cpp_mangler.cpp:63-88), entered with pos and the components so far: the
\* loop test, the length read and the assignment of the component read.
\* `looping` tells whether the loop goes on to another iteration.
ParseComponent(s, r, components) ==
    IF Fits(r, Len(s))
    THEN [looping |-> TRUE, pos |-> After(r),
          components |->
             IF components.namespace_name = <<>>
             THEN [components EXCEPT !.namespace_name = Taken(s, r)]
             ELSE IF ~components.has_class
             THEN [components EXCEPT !.class_name = Taken(s, r),
                                     !.has_class = TRUE]
             ELSE [components EXCEPT !.method_name = Taken(s, r)]]
    ELSE [looping |-> FALSE, pos |-> r.pos, components |-> components]

ParseIteration(s, pos, components) ==
    IF pos < Len(s) /\ s[pos + 1] # "E"
    THEN ParseComponent(s, ReadLength(s, pos, WordZero), components)
    ELSE [looping |-> FALSE, pos |-> pos, components |-> components]

\* The whole loop, for a name on which it ends.
RECURSIVE ParseLoop(_, _)
ParseLoop(s, it) ==
    IF it.looping THEN ParseLoop(s, ParseIteration(s, it.pos, it.components))
    ELSE it.components

\* CppDemangler::parse up to its nested-name loop: what it returns at once,
\* or the state in which the loop is entered.
Returned(at, components) == [looping |-> FALSE, pos |-> at, components |-> components]

ParseEntry(mangled_name) ==
    IF ~isCppMangled(mangled_name) THEN Returned(0, DefaultComponents)
    ELSE IF Substr(mangled_name, 0, 4) = S_ZTV
    THEN Returned(0, [DefaultComponents EXCEPT !.is_mangled = TRUE, !.prefix = S_Z,
                                               !.is_vtable = TRUE])
    ELSE IF Substr(mangled_name, 0, 4) = S_ZTI
    THEN Returned(0, [DefaultComponents EXCEPT !.is_mangled = TRUE, !.prefix = S_Z,
                                               !.is_typeinfo = TRUE])
    ELSE IF Substr(mangled_name, 0, 4) = S_ZTS
    THEN Returned(0, [DefaultComponents EXCEPT !.is_mangled = TRUE, !.prefix = S_Z,
                                               !.is_typeinfo_name = TRUE])
    ELSE IF 2 < Len(mangled_name) /\ mangled_name[3] = "N"
    THEN [looping |-> TRUE, pos |-> 3,
          components |-> [DefaultComponents EXCEPT !.is_mangled = TRUE, !.prefix = S_Z,
                                                   !.method_name = demangle(mangled_name),
                                                   !.has_namespace = TRUE]]
    ELSE Returned(2, [DefaultComponents EXCEPT !.is_mangled = TRUE, !.prefix = S_Z,
                                               !.method_name = demangle(mangled_name)])

\* CppDemangler::parse
parse(mangled_name) == ParseLoop(mangled_name, ParseEntry(mangled_name))

encodeLengthPrefix(name) == to_string(Len(name)) \o name

RECURSIVE Concat(_)
Concat(strings) ==
    IF strings = <<>> THEN <<>> ELSE Head(strings) \o Concat(Tail(strings))

\* encodeParameters' final test on the concatenated parameters.
VoidIfEmpty(result) == IF result = <<>> THEN <<"v">> ELSE result

encodeParameters(params) == VoidIfEmpty(Concat(params))

\* obfuscateNamespace / obfuscateClassName / obfuscateMethodName: the token,
\* from the cache when the component is in it.
obfuscateNamespace(h, cfg, ns) ==
    IF ns \in DOMAIN namespace_cache_ THEN namespace_cache_[ns]
    ELSE <<"N">> \o Substr(generateHash(h, cfg, ns, S_ctx_ns), 0, 8)

obfuscateClassName(h, cfg, class_name) ==
    IF class_name \in DOMAIN class_cache_ THEN class_cache_[class_name]
    ELSE <<"C">> \o Substr(generateHash(h, cfg, class_name, S_ctx_class), 0, 10)

obfuscateMethodName(h, cfg, method_name) ==
    IF method_name \in DOMAIN method_cache_ THEN method_cache_[method_name]
    ELSE <<"M">> \o Substr(generateHash(h, cfg, method_name, S_ctx_method), 0, 10)

\* Which components reconstructMangled passes to the three functions above.
UsesNamespace(c) ==
    (c.has_namespace \/ c.has_class) /\ c.has_namespace /\ c.namespace_name # <<>>
UsesClass(c) == (c.has_namespace \/ c.has_class) /\ c.has_class /\ c.class_name # <<>>
UsesMethod(c) == (c.has_namespace \/ c.has_class) /\ c.method_name # <<>>

reconstructMangled(h, cfg, components) ==
    S_Z
    \o (IF components.has_namespace \/ components.has_class
        THEN <<"N">>
             \o (IF UsesNamespace(components)
                 THEN encodeLengthPrefix(obfuscateNamespace(h, cfg, components.namespace_name))
                 ELSE <<>>)
             \o (IF UsesClass(components)
                 THEN encodeLengthPrefix(obfuscateClassName(h, cfg, components.class_name))
                 ELSE <<>>)
             \o (IF UsesMethod(components)
                 THEN encodeLengthPrefix(obfuscateMethodName(h, cfg, components.method_name))
                 ELSE <<>>)
             \o S_E
        ELSE encodeLengthPrefix(generateHash(h, cfg, components.method_name, <<>>)))
    \o encodeParameters(components.parameter_types)

\* The length-prefixed class name obfuscateVTable reads in `rest`, the part
\* of the symbol after _ZTV.
VTableRead(rest, r) ==
    [found |-> Fits(r, Len(rest)),
     class_name |-> Taken(rest, r)]

VTableRest(rest) == VTableRead(rest, ReadLength(rest, 0, WordZero))

VTableClass(vtable_symbol) == VTableRest(Substr(vtable_symbol, 4, Len(vtable_symbol)))

VTableResult(h, cfg, vtable_symbol, class) ==
    IF class.found
    THEN S_ZTV \o encodeLengthPrefix(obfuscateClassName(h, cfg, class.class_name))
    ELSE S_ZTV \o generateHash(h, cfg, vtable_symbol, S_ctx_vtable)

obfuscateVTable(h, cfg, vtable_symbol) ==
    IF vtable_symbol \in DOMAIN mangler_mapping_ THEN mangler_mapping_[vtable_symbol]
    ELSE VTableResult(h, cfg, vtable_symbol, VTableClass(vtable_symbol))

obfuscateTypeInfo(h, cfg, typeinfo_symbol) ==
    IF typeinfo_symbol \in DOMAIN mangler_mapping_ THEN mangler_mapping_[typeinfo_symbol]
    ELSE Substr(typeinfo_symbol, 0, 4)
         \o Substr(generateHash(h, cfg, typeinfo_symbol, S_ctx_typeinfo), 0, 10)

\* obfuscateCppSymbol once parse has returned components.
ObfuscateParsed(h, cfg, mangled_name, components) ==
    IF ~components.is_mangled THEN mangled_name
    ELSE IF components.is_vtable THEN obfuscateVTable(h, cfg, mangled_name)
    ELSE IF components.is_typeinfo \/ components.is_typeinfo_name
         THEN obfuscateTypeInfo(h, cfg, mangled_name)
    ELSE reconstructMangled(h, cfg, components)

\* The value CppMangler::obfuscateCppSymbol returns.
obfuscateCppSymbol(h, cfg, mangled_name) ==
    IF mangled_name \in DOMAIN mangler_mapping_ THEN mangler_mapping_[mangled_name]
    ELSE ObfuscateParsed(h, cfg, mangled_name, parse(mangled_name))

\* The components one obfuscateCppSymbol call looks up in (and, when absent,
\* adds to) each cache; c is parse(mangled_name), class is
\* VTableClass(mangled_name).
Regular(mangled_name, c) ==
    /\ mangled_name \notin DOMAIN mangler_mapping_
    /\ c.is_mangled
    /\ ~(c.is_vtable \/ c.is_typeinfo \/ c.is_typeinfo_name)

NamespaceLookups(mangled_name, c) ==
    IF Regular(mangled_name, c) /\ UsesNamespace(c) THEN {c.namespace_name} ELSE {}

ClassLookups(mangled_name, c, class) ==
    IF Regular(mangled_name, c) /\ UsesClass(c) THEN {c.class_name}
    ELSE IF mangled_name \notin DOMAIN mangler_mapping_ /\ c.is_vtable /\ class.found
    THEN {class.class_name}
    ELSE {}

MethodLookups(mangled_name, c) ==
    IF Regular(mangled_name, c) /\ UsesMethod(c) THEN {c.method_name} ELSE {}

\* Every input one obfuscateCppSymbol call may hand to the hash primitive.
ComponentInputs(cfg, names, cache, context_salt) ==
    {OracleKey(cfg, HashInput(cfg, n, context_salt)) : n \in names \ DOMAIN cache}

WholeInput(cfg, name, context_salt) == {OracleKey(cfg, HashInput(cfg, name, context_salt))}

CodecInputsOf(cfg, mangled_name, c, class) ==
    IF mangled_name \in DOMAIN mangler_mapping_ \/ ~c.is_mangled THEN {}
    ELSE IF c.is_vtable
    THEN IF class.found
         THEN ComponentInputs(cfg, ClassLookups(mangled_name, c, class), class_cache_,
                              S_ctx_class)
         ELSE WholeInput(cfg, mangled_name, S_ctx_vtable)
    ELSE IF c.is_typeinfo \/ c.is_typeinfo_name
    THEN WholeInput(cfg, mangled_name, S_ctx_typeinfo)
    ELSE IF c.has_namespace \/ c.has_class
    THEN ComponentInputs(cfg, NamespaceLookups(mangled_name, c), namespace_cache_, S_ctx_ns)
         \cup ComponentInputs(cfg, ClassLookups(mangled_name, c, class), class_cache_,
                              S_ctx_class)
         \cup ComponentInputs(cfg, MethodLookups(mangled_name, c), method_cache_,
                              S_ctx_method)
    ELSE WholeInput(cfg, c.method_name, <<>>)

CodecInputs(cfg, mangled_name) ==
    CodecInputsOf(cfg, mangled_name, parse(mangled_name), VTableClass(mangled_name))

\* CppMangler::obfuscateCppSymbol as a step of the codec: the caches and
\* mapping_ after the call that returns obfuscated.
ManglerStepOf(h, cfg, mangled_name, obfuscated, c, class) ==
    /\ namespace_cache_' =
          [n \in DOMAIN namespace_cache_ \cup NamespaceLookups(mangled_name, c) |->
              obfuscateNamespace(h, cfg, n)]
    /\ class_cache_' =
          [n \in DOMAIN class_cache_ \cup ClassLookups(mangled_name, c, class) |->
              obfuscateClassName(h, cfg, n)]
    /\ method_cache_' =
          [n \in DOMAIN method_cache_ \cup MethodLookups(mangled_name, c) |->
              obfuscateMethodName(h, cfg, n)]
    /\ mangler_mapping_' =
          IF c.is_mangled THEN MapPut(mangler_mapping_, mangled_name, obfuscated)
          ELSE mangler_mapping_

ManglerStep(h, cfg, mangled_name, obfuscated) ==
    ManglerStepOf(h, cfg, mangled_name, obfuscated,
                  parse(mangled_name), VTableClass(mangled_name))

\* ----------------------------------------------------- source-text driver
\* used_hashes_ is a non-static member: each hasher instance has its own.
HasherOwn_Static(r) == UNION {used_hashes_[q] : q \in Runs}

HasherOwn(r) == used_hashes_[r]

\* CliOptions' defaults, and the ObfuscationConfig main() builds from the
\* options: --no-preserve-main erases "main" from preserve_symbols,
\* --no-preserve-stdlib changes nothing.
DefaultCliOptions ==
    [preserve_main |-> TRUE, preserve_stdlib |-> TRUE, generate_map |-> TRUE]

CliObfuscationConfig(o) ==
    [preserve_symbols |-> IF o.preserve_main THEN DefaultPreserveSymbols
                          ELSE DefaultPreserveSymbols \ {S_main},
     preserve_patterns |-> DefaultPreservePatterns,
     generate_map |-> o.generate_map]

matchesPreservePattern(symbol_name) ==
    \E i \in 1..Len(obf_config_.preserve_patterns) :
        StartsWith(symbol_name, obf_config_.preserve_patterns[i])

C_shouldPreserve_SymbolsOnly(symbol_name) ==
    \/ symbol_name \in cpp_keywords
    \/ symbol_name \in obf_config_.preserve_symbols

C_shouldPreserve(symbol_name) ==
    \/ symbol_name \in cpp_keywords
    \/ symbol_name \in obf_config_.preserve_symbols
    \/ matchesPreservePattern(symbol_name)

\* A SymbolMapping as parseDeclarations fills it in (source_file and
\* obfuscated_name keep std::string's default).
Decl(name, type) ==
    [original_name |-> name, obfuscated_name |-> <<>>, type |-> type,
     linkage |-> "EXTERNAL", address |-> 0, size |-> 0, source_file |-> <<>>,
     line_number |-> 0]

\* The regular-expression classes \s and \w, and the assertion \b before the
\* character at 0-based position p.
isspace(c) == c \in {" ", "\t", "\n", "\r", "\f"}

regexWord(c) == isalnum(c) \/ c = "_"

IdentStart(c) == isalpha(c) \/ c = "_"

WordBoundary(s, p) ==
    (p > 0 /\ regexWord(s[p])) # (p < Len(s) /\ regexWord(s[p + 1]))

\* Where the greedy runs \w*, \s* and [^)]* that start at p end.
RECURSIVE WordEnd(_, _)
WordEnd(s, p) == IF p < Len(s) /\ regexWord(s[p + 1]) THEN WordEnd(s, p + 1) ELSE p

RECURSIVE SpaceEnd(_, _)
SpaceEnd(s, p) == IF p < Len(s) /\ isspace(s[p + 1]) THEN SpaceEnd(s, p + 1) ELSE p

RECURSIVE CloseParen(_, _)
CloseParen(s, p) ==
    IF p >= Len(s) THEN npos
    ELSE IF s[p + 1] = ")" THEN p
    ELSE CloseParen(s, p + 1)

IsAt(s, p, c) == p < Len(s) /\ s[p + 1] = c

NoMatch == [found |-> FALSE]

\* func_pattern matched at p:
\* \b([a-zA-Z_][a-zA-Z0-9_]*)\s+([a-zA-Z_][a-zA-Z0-9_]*)\s*\([^)]*\)\s*\{
\* (each greedy run is followed by something outside its class, so the match
\* is the one with the longest runs).
FuncMatchAt(s, p) ==
    LET e1 == WordEnd(s, p)
        w1 == SpaceEnd(s, e1)
        e2 == WordEnd(s, w1)
        w2 == SpaceEnd(s, e2)
        c  == CloseParen(s, w2 + 1)
        w3 == SpaceEnd(s, c + 1)
    IN  IF /\ WordBoundary(s, p)
           /\ p < Len(s) /\ IdentStart(s[p + 1])
           /\ w1 > e1
           /\ w1 < Len(s) /\ IdentStart(s[w1 + 1])
           /\ IsAt(s, w2, "(")
           /\ c # npos
           /\ IsAt(s, w3, "{")
        THEN [found |-> TRUE, name |-> SubSeq(s, w1 + 1, e2), end |-> w3 + 1]
        ELSE NoMatch

\* The type alternatives of var_pattern, in the order the expression lists them.
VarTypes ==
    <<S_int, S_char, S_float, S_double, S_long, S_short, S_voidstar, S_size_t>>

RECURSIVE DigitsEnd(_, _)
DigitsEnd(s, p) == IF p < Len(s) /\ IsDigit(s[p + 1]) THEN DigitsEnd(s, p + 1) ELSE p

\* uint\d+_t at p: where it ends, or npos.
UintTypeEnd(s, p) ==
    IF /\ Substr(s, p, 4) = S_uint
       /\ DigitsEnd(s, p + 4) > p + 4
       /\ Substr(s, DigitsEnd(s, p + 4), 2) = S_us_t
    THEN DigitsEnd(s, p + 4) + 2
    ELSE npos

\* Where the type alternative that matches at p ends, or npos (no alternative
\* is a prefix of another, so at most one can be followed by \s+).
TypeEnd(s, p) ==
    IF \E i \in 1..Len(VarTypes) : Substr(s, p, Len(VarTypes[i])) = VarTypes[i]
    THEN p + Len(VarTypes[CHOOSE i \in 1..Len(VarTypes) :
                              Substr(s, p, Len(VarTypes[i])) = VarTypes[i]])
    ELSE UintTypeEnd(s, p)

\* var_pattern matched at p:
\* \b(int|char|float|double|long|short|void\*|size_t|uint\d+_t)\s+([a-zA-Z_][a-zA-Z0-9_]*)\s*[;=]
VarMatchAt(s, p) ==
    LET t  == TypeEnd(s, p)
        w1 == SpaceEnd(s, t)
        e  == WordEnd(s, w1)
        w2 == SpaceEnd(s, e)
    IN  IF /\ WordBoundary(s, p)
           /\ t # npos
           /\ w1 > t
           /\ w1 < Len(s) /\ IdentStart(s[w1 + 1])
           /\ (IsAt(s, w2, ";") \/ IsAt(s, w2, "="))
        THEN [found |-> TRUE, name |-> SubSeq(s, w1 + 1, e), end |-> w2 + 1]
        ELSE NoMatch

\* The two regex_search loops of parseDeclarations: the leftmost match at or
\* after p, then the search again from the end of that match (the character
\* before a new search start is `{`, `;` or `=`, so \b there is the same
\* with and without the preceding text).
Leftmost(positions) ==
    IF positions = {} THEN npos
    ELSE CHOOSE q \in positions : \A h \in positions : q <= h

FuncSearch(s, p) == Leftmost({q \in p..(Len(s) - 1) : FuncMatchAt(s, q).found})

VarSearch(s, p) == Leftmost({q \in p..(Len(s) - 1) : VarMatchAt(s, q).found})

RECURSIVE FuncMatchesFrom(_, _)
FuncMatchesFrom(s, q) ==
    IF q = npos THEN <<>>
    ELSE <<Decl(FuncMatchAt(s, q).name, "FUNCTION")>>
         \o FuncMatchesFrom(s, FuncSearch(s, FuncMatchAt(s, q).end))

FuncMatches(s, p) == FuncMatchesFrom(s, FuncSearch(s, p))

RECURSIVE VarMatchesFrom(_, _)
VarMatchesFrom(s, q) ==
    IF q = npos THEN <<>>
    ELSE <<Decl(VarMatchAt(s, q).name, "GLOBAL_VAR")>>
         \o VarMatchesFrom(s, VarSearch(s, VarMatchAt(s, q).end))

VarMatches(s, p) == VarMatchesFrom(s, VarSearch(s, p))

\* Every declaration the two patterns match in the text, functions first.
regexMatches(s) == FuncMatches(s, 0) \o VarMatches(s, 0)

\* parseDeclarations keeps, in match order (functions, then variables), the
\* matched declarations that shouldPreserve does not reject.
RECURSIVE parseDeclarations(_)
parseDeclarations(matches) ==
    IF matches = <<>> THEN <<>>
    ELSE IF C_shouldPreserve(Head(matches).original_name)
         THEN parseDeclarations(Tail(matches))
         ELSE <<Head(matches)>> \o parseDeclarations(Tail(matches))

\* The typed hash generateMapping's switch picks for a symbol type.
HashKind(type) ==
    CASE type = "FUNCTION" -> "function"
      [] type = "STRUCT" -> "class"
      [] OTHER -> "variable"

\* ------------------------------------------------------------ text rewriter
\* std::string::find(word, pos) on 0-based positions.
find(code, word, pos) ==
    Leftmost({q \in pos..(Len(code) - Len(word)) :
                 SubSeq(code, q + 1, q + Len(word)) = word})

\* std::string::replace(pos, len, str)
StringReplace(code, pos, len, str) ==
    SubSeq(code, 1, pos) \o str \o SubSeq(code, pos + len + 1, Len(code))

isIdentifierChar_NoUnderscore(c) == isalnum(c)

isIdentifierChar(c) == isalnum(c) \/ c = "_"

isWholeWord_BeforeOnly(text, pos, word) ==
    ~(pos > 0 /\ isIdentifierChar(text[pos]))

\* text[pos - 1] and text[end_pos] of the code are text[pos] and
\* text[end_pos + 1] here (sequences start at 1).
isWholeWord(text, pos, word) ==
    /\ ~(pos > 0 /\ isIdentifierChar(text[pos]))
    /\ ~(pos + Len(word) < Len(text) /\ isIdentifierChar(text[pos + Len(word) + 1]))

\* The while loop of replaceSymbol, entered with pos; ReplaceFound is its
\* body for the position find returned.
RECURSIVE replaceSymbolFrom(_, _, _, _)
RECURSIVE ReplaceFound(_, _, _, _)
replaceSymbolFrom(code, original, obfuscated, pos) ==
    ReplaceFound(code, original, obfuscated, find(code, original, pos))

ReplaceFound(code, original, obfuscated, pos) ==
    IF pos = npos THEN code
    ELSE IF isWholeWord(code, pos, original)
         THEN replaceSymbolFrom(StringReplace(code, pos, Len(original), obfuscated),
                                original, obfuscated, pos + Len(obfuscated))
         ELSE replaceSymbolFrom(code, original, obfuscated, pos + Len(original))

replaceSymbol(code, original, obfuscated) ==
    replaceSymbolFrom(code, original, obfuscated, 0)

SortedOrders_Unsorted(m) ==
    {order \in [1..Cardinality(DOMAIN m) -> DOMAIN m] :
        \A i, j \in DOMAIN order : i # j => order[i] # order[j]}

\* The orders std::sort may leave the mapping's entries in: every permutation
\* of the keys with lengths non-increasing (the comparator orders by length
\* only and std::sort is not stable).
SortedOrders(m) ==
    {order \in [1..Cardinality(DOMAIN m) -> DOMAIN m] :
        /\ \A i, j \in DOMAIN order : i # j => order[i] # order[j]
        /\ \A i, j \in DOMAIN order : i < j => Len(order[i]) >= Len(order[j])}

\* The for loop of applyObfuscation over sorted_mapping, from entry i on.
RECURSIVE ReplaceEach(_, _, _, _)
ReplaceEach(code, m, order, i) ==
    IF i > Len(order) THEN code
    ELSE ReplaceEach(replaceSymbol(code, order[i], m[order[i]]), m, order, i + 1)

applyObfuscation(source, m, order) == ReplaceEach(source, m, order, 1)

\* ------------------------------------------------------------ mapping file
\* The enumerators of SymbolType, Linkage and HashAlgorithm in declaration
\* order; static_cast<int> gives the 0-based position.
SymbolTypes ==
    <<"FUNCTION", "GLOBAL_VAR", "STATIC_VAR", "LOCAL_VAR", "TYPEDEF", "STRUCT",
      "ENUM", "UNKNOWN">>

Linkages == <<"EXTERNAL", "INTERNAL", "WEAK", "COMMON">>

HashAlgorithms == <<"SHA256", "BLAKE2B", "SIPHASH">>

EnumToInt(enumerators, e) ==
    (CHOOSE i \in 1..Len(enumerators) : enumerators[i] = e) - 1

IntToEnum(enumerators, n) == enumerators[n + 1]

\* How the JSON writer prints an integer and a string, and how the reader
\* decodes them: a number as (signed) decimal digits, a string with `"` and
\* `\` escaped by a backslash.
valueToString(n) == IF n < 0 THEN <<"-">> \o to_string(0 - n) ELSE to_string(n)

RECURSIVE valueToQuotedString(_)
valueToQuotedString(str) ==
    IF str = <<>> THEN <<>>
    ELSE (IF Head(str) \in {"\"", "\\"} THEN <<"\\", Head(str)>> ELSE <<Head(str)>>)
         \o valueToQuotedString(Tail(str))

decodeNumber(text) == stoi(text).value

decodeString_Raw(text) == text

RECURSIVE decodeString(_)
decodeString(text) ==
    IF text = <<>> THEN <<>>
    ELSE IF Head(text) = "\\" /\ Len(text) >= 2
         THEN <<text[2]>> \o decodeString(Tail(Tail(text)))
         ELSE <<Head(text)>> \o decodeString(Tail(text))

JsonString(str) == [kind |-> "string", text |-> valueToQuotedString(str)]

JsonNumber(n) == [kind |-> "number", text |-> valueToString(n)]

asString(value) == decodeString(value.text)

asInt(value) == decodeNumber(value.text)

asUInt64(value) == decodeNumber(value.text)

\* The body of exportMapping's loop: one member per field of the entry.
SymbolToJson(m) ==
    [original |-> JsonString(m.original_name),
     obfuscated |-> JsonString(m.obfuscated_name),
     type |-> JsonNumber(EnumToInt(SymbolTypes, m.type)),
     linkage |-> JsonNumber(EnumToInt(Linkages, m.linkage)),
     address |-> JsonNumber(m.address),
     size |-> JsonNumber(m.size),
     source_file |-> JsonString(m.source_file),
     line |-> JsonNumber(m.line_number)]

\* The document exportMapping writes for the list `held`.
exportMapping(held, algorithm) ==
    [exists |-> TRUE,
     symbols |-> [i \in 1..Len(held) |-> SymbolToJson(held[i])],
     version |-> JsonString(<<"1", ".", "0">>),
     hash_algorithm |-> JsonNumber(EnumToInt(HashAlgorithms, algorithm))]

\* The body of importMapping's loop.
SymbolFromJson(symbol) ==
    [original_name |-> asString(symbol.original),
     obfuscated_name |-> asString(symbol.obfuscated),
     type |-> IntToEnum(SymbolTypes, asInt(symbol.type)),
     linkage |-> IntToEnum(Linkages, asInt(symbol.linkage)),
     address |-> asUInt64(symbol.address),
     size |-> asUInt64(symbol.size),
     source_file |-> asString(symbol.source_file),
     line_number |-> asInt(symbol.line)]

\* The list importMapping leaves in mappings_ for a document that parsed.
importMapping(root) ==
    [i \in 1..Len(root.symbols) |-> SymbolFromJson(root.symbols[i])]

\* A file that was never written, and a path std::ofstream cannot open
\* (writeFile then throws runtime_error).
NoFile == [exists |-> FALSE]

Unwritable == [exists |-> FALSE, writable |-> FALSE]

InitTextIdle ==
    /\ opts = DefaultCliOptions
    /\ obf_config_ = CliObfuscationConfig(DefaultCliOptions)
    /\ unit = <<>>
    /\ symbols = [r \in Runs |-> <<>>]
    /\ mapping = [r \in Runs |-> EmptyMap]
    /\ mappings_ = [r \in Runs |-> <<>>]
    /\ source_code = <<>>
    /\ obfuscated_code = [r \in Runs |-> NoFile]
    /\ mapping_file = [r \in Runs |-> NoFile]

InitRunsIdle ==
    /\ used_names_ = [r \in Runs |-> {}]
    /\ pc = [r \in Runs |-> "idle"]
    /\ idx = [r \in Runs |-> 0]

\* obfuscateSymbols, steps 1-2: readFile and analyzeSymbols.
AnalyzeSymbols(r) ==
    /\ pc[r] = "analyze"
    /\ symbols' = [symbols EXCEPT ![r] = parseDeclarations(unit)]
    /\ pc' = [pc EXCEPT ![r] = "generate"]
    /\ idx' = [idx EXCEPT ![r] = 1]
    /\ UNCHANGED <<hasherVars, call, manglerVars, opts, obf_config_, unit,
                   mapping, mappings_, source_code, obfuscated_code, mapping_file,
                   used_names_, passVars>>

\* One iteration of generateMapping's loop.  An exception thrown by the
\* hasher leaves obfuscateSymbols; main() catches it and returns 1.
GenerateMappingStep(r) ==
    /\ pc[r] = "generate"
    /\ idx[r] <= Len(symbols[r])
    /\ \E symbol \in {symbols[r][idx[r]]} :
       \E name \in {symbol.original_name} :
           IF C_shouldPreserve(name)
           THEN /\ idx' = [idx EXCEPT ![r] = idx[r] + 1]
                /\ UNCHANGED <<oracle, used_hashes_, used_names_, mapping, mappings_, pc>>
           ELSE \E h \in Extensions(UniqueInputs(config_, name)) :
                \E out \in {generateUniqueHash(h, config_, name, {}, HasherOwn(r),
                                               TypedPrefix(config_, HashKind(symbol.type)))} :
                    /\ oracle' = Remember(h, UniqueConsulted(config_, name, out.counter))
                    /\ IF out.threw
                       THEN /\ pc' = [pc EXCEPT ![r] = "failed"]
                            /\ used_hashes_' = [used_hashes_ EXCEPT ![r] = out.own]
                            /\ UNCHANGED <<used_names_, mapping, mappings_, idx>>
                       ELSE /\ used_hashes_' = [used_hashes_ EXCEPT ![r] = out.own]
                            /\ used_names_' = [used_names_ EXCEPT ![r] = @ \cup {out.result}]
                            /\ mapping' = [mapping EXCEPT ![r] = MapPut(@, name, out.result)]
                            /\ mappings_' = [mappings_ EXCEPT ![r] =
                                   Append(@, [symbol EXCEPT !.obfuscated_name = out.result])]
                            /\ idx' = [idx EXCEPT ![r] = idx[r] + 1]
                            /\ pc' = pc
    /\ UNCHANGED <<config_, call, manglerVars, opts, obf_config_, unit, symbols,
                   source_code, obfuscated_code, mapping_file, passVars>>

\* The loop has ended: obfuscateSymbols rewrites the text (step 4), writes
\* the output file (step 5) and, if generate_map is set, exports the mapping
\* (step 6).
FinishObfuscateSymbols(r) ==
    /\ pc[r] = "generate"
    /\ idx[r] > Len(symbols[r])
    /\ IF obfuscated_code[r] = Unwritable
       THEN /\ pc' = [pc EXCEPT ![r] = "failed"]
            /\ UNCHANGED <<obfuscated_code, mapping_file>>
       ELSE /\ \E order \in SortedOrders(mapping[r]) :
                  obfuscated_code' = [obfuscated_code EXCEPT ![r] =
                      [exists |-> TRUE,
                       content |-> applyObfuscation(source_code, mapping[r], order)]]
            /\ mapping_file' =
                  IF obf_config_.generate_map
                  THEN [mapping_file EXCEPT ![r] =
                            exportMapping(mappings_[r], config_.algorithm)]
                  ELSE mapping_file
            /\ pc' = [pc EXCEPT ![r] = "done"]
    /\ UNCHANGED <<hasherVars, call, manglerVars, opts, obf_config_, unit, symbols,
                   mapping, mappings_, source_code, used_names_, idx, passVars>>

\* ------------------------------------------------------------------ IR pass
S_m     == <<"m">>
S_m_c   == <<"m", ".", "c">>
S_dot   == <<".">>

\* A global value of the module: its current name, the name it had when the
\* pass started, and whether it is only declared.
GlobalValue(name, is_declaration) ==
    [name |-> name, original |-> name, is_declaration |-> is_declaration]

EmptyModule ==
    [name |-> <<>>, source_file |-> <<>>, functions |-> <<>>, globals |-> <<>>,
     aliases |-> <<>>, last_unique |-> 0]

InitPassIdle ==
    /\ preserve_main_ = TRUE
    /\ preserve_stdlib_ = TRUE
    /\ obfuscate_globals_ = TRUE
    /\ generate_map_ = TRUE
    /\ salt_ = <<>>
    /\ preserve_symbols_ = PassPreserveSymbols
    /\ mapping_ = EmptyMap
    /\ module = EmptyModule
    /\ map_file = EmptyMap

isSystemSymbol(name) ==
    \/ Len(name) >= 2 /\ name[1] = "_" /\ name[2] = "_"
    \/ Substr(name, 0, 5) = S_cxa
    \/ preserve_stdlib_ /\ name \in stdlib_funcs

Pass_shouldPreserve(name) ==
    \/ name \in preserve_symbols_
    \/ preserve_main_ /\ name = S_main
    \/ isSystemSymbol(name)
    \/ Substr(name, 0, 5) = S_llvm_dot

\* Every name in the module's symbol table.
ModuleNames(m) ==
    {m.functions[i].name : i \in 1..Len(m.functions)}
    \cup {m.globals[i].name : i \in 1..Len(m.globals)}
    \cup {m.aliases[i].name : i \in 1..Len(m.aliases)}

\* Value::setName on a global value: a name already in the symbol table gets
\* "." and the table's next unused counter appended.
Suffixed(name, n) == name \o S_dot \o to_string(n)

FirstUnique(name, taken, from) ==
    CHOOSE k \in from..(from + Cardinality(taken)) :
        /\ Suffixed(name, k) \notin taken
        /\ \A j \in from..(k - 1) : Suffixed(name, j) \in taken

Renamed(m, list, i, name, last_unique) ==
    [m EXCEPT ![list][i].name = name, !.last_unique = last_unique]

UniqueName(m, list, i, new_name, n) == Renamed(m, list, i, Suffixed(new_name, n), n)

SetNameIn(m, list, i, new_name, taken) ==
    IF new_name \in taken
    THEN UniqueName(m, list, i, new_name, FirstUnique(new_name, taken, m.last_unique + 1))
    ELSE Renamed(m, list, i, new_name, m.last_unique)

setName(m, list, i, new_name) ==
    SetNameIn(m, list, i, new_name, ModuleNames(m) \ {m[list][i].name})

\* generateModuleSalt: a default-configured temporary hasher on the module
\* name followed by the source file name.
ModuleSaltInput(m) == HashInput(DefaultHashConfig, m.name \o m.source_file, S_ctx_module_salt)

generateModuleSalt(h, m) ==
    generateHash(h, DefaultHashConfig, m.name \o m.source_file, S_ctx_module_salt)

\* run(), up to its first loop: the salt is derived when none was given.
RunBegin ==
    /\ pc[1] = "run"
    /\ IF salt_ = <<>>
       THEN \E h \in Extensions({OracleKey(DefaultHashConfig, ModuleSaltInput(module))}) :
               /\ salt_' = generateModuleSalt(h, module)
               /\ config_' = [config_ EXCEPT !.global_salt = generateModuleSalt(h, module)]
               /\ oracle' = h
       ELSE UNCHANGED <<salt_, config_, oracle>>
    /\ pc' = [pc EXCEPT ![1] = "functions"]
    /\ idx' = [idx EXCEPT ![1] = 1]
    /\ UNCHANGED <<used_hashes_, call, manglerVars, textVars, used_names_,
                   preserve_main_, preserve_stdlib_, obfuscate_globals_, generate_map_,
                   preserve_symbols_, mapping_, module, map_file>>

\* The body of one loop iteration that renames a global value: the name
\* comes from the codec when use_codec holds and the name is mangled, from
\* generateUniqueHash(original_name, used_names_, prefix) otherwise; it is
\* recorded in mapping_ and given to the value.
RenameValue(list, use_codec, prefix) ==
    \E original_name \in {module[list][idx[1]].name} :
        IF use_codec /\ isCppMangled(original_name)
        THEN \E inputs \in {CodecInputs(config_, original_name)} :
             \E h \in Extensions(inputs) :
             \E obfuscated_name \in {obfuscateCppSymbol(h, config_, original_name)} :
                 /\ ManglerStep(h, config_, original_name, obfuscated_name)
                 /\ oracle' = Remember(h, inputs)
                 /\ mapping_' = MapPut(mapping_, original_name, obfuscated_name)
                 /\ module' = setName(module, list, idx[1], obfuscated_name)
                 /\ idx' = [idx EXCEPT ![1] = idx[1] + 1]
                 /\ UNCHANGED <<used_hashes_, used_names_, pc>>
        ELSE \E h \in Extensions(UniqueInputs(config_, original_name)) :
             \E out \in {generateUniqueHash(h, config_, original_name, used_names_[1],
                                            HasherOwn(1), prefix)} :
                 /\ oracle' = Remember(h, UniqueConsulted(config_, original_name, out.counter))
                 /\ UNCHANGED manglerVars
                 /\ IF out.threw
                    THEN /\ pc' = [pc EXCEPT ![1] = "failed"]
                         /\ UNCHANGED <<used_hashes_, used_names_, mapping_, module, idx>>
                    ELSE /\ used_hashes_' = [used_hashes_ EXCEPT ![1] = out.own]
                         /\ used_names_' = [used_names_ EXCEPT ![1] = out.used_hashes]
                         /\ mapping_' = MapPut(mapping_, original_name, out.result)
                         /\ module' = setName(module, list, idx[1], out.result)
                         /\ idx' = [idx EXCEPT ![1] = idx[1] + 1]
                         /\ pc' = pc

\* A loop iteration that leaves its value alone, and the end of a loop.
SkipValue ==
    /\ idx' = [idx EXCEPT ![1] = idx[1] + 1]
    /\ UNCHANGED <<oracle, used_hashes_, manglerVars, used_names_, pc, mapping_, module>>

LoopEnd(next) ==
    /\ pc' = [pc EXCEPT ![1] = next]
    /\ idx' = [idx EXCEPT ![1] = 1]
    /\ UNCHANGED <<oracle, used_hashes_, manglerVars, used_names_, mapping_, module>>

\* One iteration of obfuscateFunctions' loop (or its end).
ObfuscateFunctionsStep ==
    /\ pc[1] = "functions"
    /\ IF idx[1] > Len(module.functions)
       THEN LoopEnd(IF obfuscate_globals_ THEN "globals" ELSE "aliases")
       ELSE IF module.functions[idx[1]].is_declaration
               \/ Pass_shouldPreserve(module.functions[idx[1]].name)
       THEN SkipValue
       ELSE RenameValue("functions", TRUE, S_f)
    /\ UNCHANGED <<config_, call, textVars, preserve_main_, preserve_stdlib_,
                   obfuscate_globals_, generate_map_, salt_, preserve_symbols_, map_file>>

\* One iteration of obfuscateGlobalVariables' loop (or its end).
ObfuscateGlobalVariablesStep ==
    /\ pc[1] = "globals"
    /\ IF idx[1] > Len(module.globals)
       THEN LoopEnd("aliases")
       ELSE IF module.globals[idx[1]].is_declaration
               \/ Pass_shouldPreserve(module.globals[idx[1]].name)
       THEN SkipValue
       ELSE RenameValue("globals", TRUE, S_v)
    /\ UNCHANGED <<config_, call, textVars, preserve_main_, preserve_stdlib_,
                   obfuscate_globals_, generate_map_, salt_, preserve_symbols_, map_file>>

\* One iteration of obfuscateAliases' loop (or its end).
ObfuscateAliasesStep ==
    /\ pc[1] = "aliases"
    /\ IF idx[1] > Len(module.aliases)
       THEN LoopEnd("save")
       ELSE IF Pass_shouldPreserve(module.aliases[idx[1]].name)
       THEN SkipValue
       ELSE RenameValue("aliases", FALSE, S_a)
    /\ UNCHANGED <<config_, call, textVars, preserve_main_, preserve_stdlib_,
                   obfuscate_globals_, generate_map_, salt_, preserve_symbols_, map_file>>

SaveMapping_Always ==
    /\ pc[1] = "save"
    /\ map_file' = [symbols |-> mapping_, salt |-> salt_]
    /\ pc' = [pc EXCEPT ![1] = "done"]
    /\ UNCHANGED <<hasherVars, call, manglerVars, textVars, used_names_, idx,
                   preserve_main_, preserve_stdlib_, obfuscate_globals_, generate_map_,
                   salt_, preserve_symbols_, mapping_, module>>

\* run(), step 4: saveMapping when generate_map_ is set.
SaveMapping ==
    /\ pc[1] = "save"
    /\ map_file' = IF generate_map_ THEN [symbols |-> mapping_, salt |-> salt_]
                   ELSE map_file
    /\ pc' = [pc EXCEPT ![1] = "done"]
    /\ UNCHANGED <<hasherVars, call, manglerVars, textVars, used_names_, idx,
                   preserve_main_, preserve_stdlib_, obfuscate_globals_, generate_map_,
                   salt_, preserve_symbols_, mapping_, module>>

\* ------------------------------------------------------------ hasher spec
HasherNames == {S_foo}
HasherPrefixes == {S_f}
Salts == {<<>>, S_k}

NoCall == [op |-> "none"]

\* Every identifier the hasher can return for this prefix.
DigestHex(cfg, d) ==
    CASE cfg.algorithm = "SHA256" -> Sha256Hex[d]
      [] cfg.algorithm = "BLAKE2B" -> Blake2bHex[d]
      [] cfg.algorithm = "SIPHASH" -> SipHashHex[d]

Candidates(prefix) ==
    {applyPrefix(config_, truncateHash(DigestHex(config_, d), config_.hash_length), prefix) :
        d \in DigestIds}

\* A caller invokes generateUniqueHash(name, used_hashes, prefix) with a set of its own.
GenerateUniqueHashCall(r) ==
    \E name \in HasherNames, prefix \in HasherPrefixes :
    \E used_hashes \in SUBSET Candidates(prefix) :
    \E h \in Extensions(UniqueInputs(config_, name)) :
        \E out \in {generateUniqueHash(h, config_, name, used_hashes, HasherOwn(r), prefix)} :
            /\ oracle' = Remember(h, UniqueConsulted(config_, name, out.counter))
            /\ used_hashes_' = [used_hashes_ EXCEPT ![r] = out.own]
            /\ call' = [op |-> "generateUniqueHash", name |-> name, prefix |-> prefix,
                        used_before |-> used_hashes, own_before |-> used_hashes_[r],
                        used_after |-> out.used_hashes, own_after |-> out.own,
                        threw |-> out.threw,
                        result |-> out.result, counter |-> out.counter]
            /\ UNCHANGED <<config_, manglerVars, driverVars>>

\* hashFunction / hashVariable / hashClass / hashNamespace: a fresh temp_set.
TypedHashCall(r, kinds) ==
    \E name \in HasherNames, kind \in kinds :
    \E h \in Extensions(UniqueInputs(config_, name)) :
        \E out \in {generateUniqueHash(h, config_, name, {}, HasherOwn(r),
                                       TypedPrefix(config_, kind))} :
            /\ oracle' = Remember(h, UniqueConsulted(config_, name, out.counter))
            /\ used_hashes_' = [used_hashes_ EXCEPT ![r] = out.own]
            /\ call' = [op |-> kind, name |-> name, prefix |-> TypedPrefix(config_, kind),
                        used_before |-> {}, own_before |-> used_hashes_[r],
                        used_after |-> out.used_hashes, own_after |-> out.own,
                        threw |-> out.threw,
                        result |-> out.result, counter |-> out.counter]
            /\ UNCHANGED <<config_, manglerVars, driverVars>>

InitHasher ==
    /\ config_ = DefaultHashConfig
    /\ oracle = <<>>
    /\ used_hashes_ = [r \in Runs |-> {}]
    /\ call = NoCall
    /\ InitMangler
    /\ InitTextIdle
    /\ InitRunsIdle
    /\ InitPassIdle

NextHasher ==
    \/ GenerateUniqueHashCall(1)
    \/ TypedHashCall(1, {"function"})

SpecHasher == InitHasher /\ [][NextHasher]_vars

\* -------------------------------------------------- claims on the hasher
\* The candidates of one generateUniqueHash call, in the order the code tries
\* them: index -1 is prefix||hash(name), index c >= 0 is prefix||hash(name_c).
CandidateInput(name, c) == IF c < 0 THEN name ELSE CounterName(name, c)

CandidateKnown(name, c) ==
    OracleKey(config_, HashInput(config_, CandidateInput(name, c), <<>>)) \in DOMAIN oracle

Candidate(name, prefix, c) ==
    applyPrefix(config_, generateHash(oracle, config_, CandidateInput(name, c), <<>>), prefix)

\* Candidate c is the first candidate outside `used`.
FirstFree(name, prefix, used, c) ==
    /\ \A j \in -1..c : CandidateKnown(name, j)
    /\ Candidate(name, prefix, c) \notin used
    /\ \A j \in -1..(c - 1) : Candidate(name, prefix, j) \in used

C10_CollisionExhaustion ==
    call.op # "none" =>
        LET used == call.used_before \cup call.own_before
            allUsed == \A j \in -1..(CollisionLimit - 1) :
                          /\ CandidateKnown(call.name, j)
                          /\ Candidate(call.name, call.prefix, j) \in used
        IN  /\ call.threw <=> allUsed
            /\ ~call.threw =>
                  /\ call.result \notin used
                  /\ \E c \in -1..(CollisionLimit - 1) :
                        /\ FirstFree(call.name, call.prefix, used, c)
                        /\ call.result = Candidate(call.name, call.prefix, c)

\* A call that failed with too many collisions, after CollisionLimit re-hashes
\* were compared and found used.
C10_Witness ==
    /\ call.op = "generateUniqueHash"
    /\ call.threw
    /\ call.counter = CollisionLimit + 1
    /\ call.used_after = call.used_before

\* ----------------------------------------------------- configured hasher
\* The values of `-l` on the command line, and the hash_length each gives:
\* opts.hash_length = std::stoi(optarg) stores the int in a size_t, so a
\* negative value keeps its bits (see SizeLE).
A_0 == <<"0">>
A_3 == <<"3">>
A_4 == <<"4">>
A_12 == <<"1", "2">>
A_17 == <<"1", "7">>
A_minus1 == <<"-", "1">>
A_x == <<"x">>

LengthArgs == {A_0, A_3, A_4, A_12, A_17, A_minus1}

HashLengths == {stoi(a).value : a \in {b \in LengthArgs : ~stoi(b).threw}}

Kinds == {"function", "variable", "class", "namespace"}

\* A caller invokes generateHash(original_name) (context_salt defaulted).
GenerateHashCall(r) ==
    \E name \in HasherNames :
    \E h \in Extensions({OracleKey(config_, HashInput(config_, name, <<>>))}) :
        /\ oracle' = h
        /\ call' = [op |-> "generateHash", name |-> name, threw |-> FALSE,
                    result |-> generateHash(h, config_, name, <<>>)]
        /\ UNCHANGED <<config_, used_hashes_, manglerVars, driverVars>>

\* A caller invokes generateUniqueHash(name, used_hashes) with a fresh, empty
\* used_hashes set (prefix defaulted to "").
GenerateUniqueHashDefaultPrefixCall(r) ==
    \E name \in HasherNames :
    \E used_hashes \in {{}} :
    \E h \in Extensions(UniqueInputs(config_, name)) :
        \E out \in {generateUniqueHash(h, config_, name, used_hashes, HasherOwn(r), <<>>)} :
            /\ oracle' = Remember(h, UniqueConsulted(config_, name, out.counter))
            /\ used_hashes_' = [used_hashes_ EXCEPT ![r] = out.own]
            /\ call' = [op |-> "generateUniqueHash", name |-> name, prefix |-> <<>>,
                        used_before |-> used_hashes, own_before |-> used_hashes_[r],
                        used_after |-> out.used_hashes, own_after |-> out.own,
                        threw |-> out.threw,
                        result |-> out.result, counter |-> out.counter]
            /\ UNCHANGED <<config_, manglerVars, driverVars>>

\* A CryptoHasher constructed from any algorithm, prefix style and `-l` value.
InitConfig ==
    /\ config_ \in {[algorithm |-> a, prefix_style |-> p, hash_length |-> l,
                     global_salt |-> <<>>] :
                        a \in Algorithms, p \in PrefixStyles, l \in HashLengths}
    /\ oracle = <<>>
    /\ used_hashes_ = [r \in Runs |-> {}]
    /\ call = NoCall
    /\ InitMangler
    /\ InitTextIdle
    /\ InitRunsIdle
    /\ InitPassIdle

\* How many identifiers one hasher is asked for before it is discarded.
MaxIssued == 2

CanIssue(r) == Cardinality(used_hashes_[r]) < MaxIssued

NextConfig ==
    \/ CanIssue(1) /\ GenerateHashCall(1)
    \/ CanIssue(1) /\ TypedHashCall(1, Kinds)
    \/ CanIssue(1) /\ GenerateUniqueHashDefaultPrefixCall(1)

SpecConfig == InitConfig /\ [][NextConfig]_vars

\* ---------------------------------------- claims on the configured hasher
\* C11: under a hash_length below 4 no call of the hasher returns an
\* identifier: every call fails (with InvalidConfig).
C11_InvalidConfigRejected ==
    (call.op # "none" /\ ~SizeLE(4, config_.hash_length)) => call.threw

\* C12: for every algorithm and every hash_length in 4..64, generateHash
\* returns exactly hash_length lower-case hex characters.
C12_FixedWidth ==
    (/\ call.op = "generateHash"
     /\ SizeLE(4, config_.hash_length)
     /\ SizeLE(config_.hash_length, 64))
        => IsHexString(call.result, config_.hash_length)

\* The hash the returned identifier of a typed entry was built from: the one
\* of the last candidate the collision loop tried.
ReturnedHash ==
    generateHash(oracle, config_, CandidateInput(call.name, call.counter - 1), <<>>)

KindPrefix(kind) ==
    CASE kind = "function" -> S_f
      [] kind = "variable" -> S_v
      [] kind = "class" -> S_C
      [] kind = "namespace" -> S_N

\* C13: a typed entry returns, with style TYPED, f_ / v_ / C_ / N_ followed by
\* the hash; with style UNDERSCORE, _ followed by the hash; with style NONE,
\* s_ followed by the hash when the hash starts with a digit, and the bare
\* hash when it does not.
C13_Prefixing ==
    (call.op \in Kinds /\ ~call.threw) =>
        /\ config_.prefix_style = "TYPED" =>
              call.result = KindPrefix(call.op) \o ReturnedHash
        /\ config_.prefix_style = "UNDERSCORE" =>
              call.result = S_us \o ReturnedHash
        /\ (config_.prefix_style = "NONE" /\ ReturnedHash # <<>>
                /\ IsDigit(ReturnedHash[1])) =>
              call.result = S_s \o ReturnedHash
        /\ (config_.prefix_style = "NONE"
                /\ ~(ReturnedHash # <<>> /\ IsDigit(ReturnedHash[1]))) =>
              call.result = ReturnedHash

\* A typed entry under style NONE returned s_ in front of a hash that starts
\* with a digit.
C13_Witness ==
    /\ call.op \in Kinds
    /\ ~call.threw
    /\ config_.prefix_style = "NONE"
    /\ ReturnedHash # <<>>
    /\ IsDigit(ReturnedHash[1])
    /\ call.result = S_s \o ReturnedHash

IsIdentifier(s) ==
    /\ s # <<>>
    /\ isalpha(s[1]) \/ s[1] = "_"
    /\ \A i \in 2..Len(s) : isalnum(s[i]) \/ s[i] = "_"

\* C14: every identifier returned by a typed entry or by generateUniqueHash,
\* and every obfuscated name the codec recorded, is a non-empty string that
\* starts with a letter or _ and continues with letters, digits or _.
C14_PrefixValidity ==
    /\ (call.op \in Kinds \cup {"generateUniqueHash"} /\ ~call.threw) =>
          IsIdentifier(call.result)
    /\ \A k \in DOMAIN mangler_mapping_ : IsIdentifier(mangler_mapping_[k])

\* C29: a typed entry (hashFunction, hashVariable, hashClass, hashNamespace)
\* called twice in a row on one hasher with the same name returns the same
\* identifier both times.
C29_RepeatStability ==
    [][(/\ call.op \in Kinds /\ ~call.threw
        /\ call'.op = call.op /\ call'.name = call.name /\ ~call'.threw) =>
          call'.result = call.result]_vars

\* ------------------------------------------------------------- codec spec
\* The mangled names handed to the codec, and how many of them one codec
\* instance is given.
CodecPool ==
    {M_method, M_method2, M_vtable, M_typeinfo, M_tiname, M_s4,
     M_foo_v, M_foo_i, M_flat_i, M_vtable_ns, M_bad_len, M_bad_after}

MaxCodecCalls == 3

\* A caller invokes CppMangler::obfuscateCppSymbol(mangled_name).
ObfuscateCppSymbolCall ==
    \E mangled_name \in CodecPool :
    \E inputs \in {CodecInputs(config_, mangled_name)} :
    \E h \in Extensions(inputs) :
        /\ mangled_name \in DOMAIN mangler_mapping_
              \/ Cardinality(DOMAIN mangler_mapping_) < MaxCodecCalls
        /\ ManglerStep(h, config_, mangled_name, obfuscateCppSymbol(h, config_, mangled_name))
        /\ oracle' = Remember(h, inputs)
        /\ UNCHANGED <<config_, used_hashes_, call, driverVars>>

InitCodec == InitHasher

NextCodec == ObfuscateCppSymbolCall

SpecCodec == InitCodec /\ [][NextCodec]_vars

\* --------------------------------------------------- claims on the codec
\* The Itanium reading of a symbol, used to state what the codec should
\* keep: _Z or _ZTV/_ZTI/_ZTS, then N <token>+ E or one <token>, then the
\* remaining bytes.
IsSpecial(s) == Substr(s, 0, 4) \in {S_ZTV, S_ZTI, S_ZTS}

RECURSIVE ReadTokens(_, _, _)
ReadTokens(s, pos, tokens) ==
    IF pos < Len(s) /\ IsDigit(s[pos + 1])
    THEN LET r == ReadLength(s, pos, WordZero)
         IN  IF FitsExactly(r, Len(s))
             THEN ReadTokens(s, After(r), Append(tokens, Taken(s, r)))
             ELSE [ok |-> FALSE, tokens |-> tokens, pos |-> pos]
    ELSE [ok |-> TRUE, tokens |-> tokens, pos |-> pos]

Reading(s) ==
    LET body == IF IsSpecial(s) THEN 4 ELSE 2
        nested == body < Len(s) /\ s[body + 1] = "N"
        r == ReadTokens(s, IF nested THEN body + 1 ELSE body, <<>>)
        closed == r.pos < Len(s) /\ s[r.pos + 1] = "E"
    IN  [nested |-> nested,
         tokens |-> r.tokens,
         ok |-> r.ok /\ r.tokens # <<>> /\ (nested => closed),
         rest |-> Substr(s, IF nested THEN r.pos + 1 ELSE r.pos, Len(s))]

EndsWith(s, suffix) ==
    Len(suffix) <= Len(s) /\ Substr(s, Len(s) - Len(suffix), Len(suffix)) = suffix

\* C5: for every mangled input whose name reads as a nested or single name,
\* the bytes after the name are the last bytes of the obfuscated name, and the
\* obfuscated name ends in "v" when the input has no such bytes.
C5_ParametersRetained ==
    \A m \in DOMAIN mangler_mapping_ :
        (~IsSpecial(m) /\ Reading(m).ok) =>
            LET out == Reading(mangler_mapping_[m])
            IN  out.rest = (IF Reading(m).rest = <<>> THEN <<"v">> ELSE Reading(m).rest)

\* C6: every obfuscated name begins with _Z; a _ZTV, _ZTI or _ZTS input keeps
\* its four-character prefix; an input with a nested name N...E yields an
\* output with a nested name N...E whose tokens each carry their own length.
C6_MangledShape ==
    \A m \in DOMAIN mangler_mapping_ :
        LET out == mangler_mapping_[m]
        IN  /\ Substr(out, 0, 2) = S_Z
            /\ IsSpecial(m) => Substr(out, 0, 4) = Substr(m, 0, 4)
            /\ (Reading(m).nested /\ Reading(m).ok) =>
                  Reading(out).nested /\ Reading(out).ok

\* C7: a nested name with exactly two components and void arity becomes
\* _ZN, a class token C + 10 hex characters derived from the first component,
\* a method token M + 10 hex characters derived from the second, then Ev.
C7_ClassMethodTokens ==
    \A m \in DOMAIN mangler_mapping_ :
        (~IsSpecial(m) /\ Reading(m).ok /\ Reading(m).nested
            /\ Len(Reading(m).tokens) = 2 /\ Reading(m).rest = <<"v">>
            /\ config_.hash_length >= 10) =>
            LET in == Reading(m)
                out == Reading(mangler_mapping_[m])
            IN  /\ out.ok /\ out.nested /\ out.rest = <<"v">>
                /\ Len(out.tokens) = 2
                /\ out.tokens[1][1] = "C" /\ IsHexString(Tail(out.tokens[1]), 10)
                /\ out.tokens[2][1] = "M" /\ IsHexString(Tail(out.tokens[2]), 10)
                /\ in.tokens[1] \in DOMAIN class_cache_
                /\ out.tokens[1] = class_cache_[in.tokens[1]]
                /\ in.tokens[2] \in DOMAIN method_cache_
                /\ out.tokens[2] = method_cache_[in.tokens[2]]

\* The class a symbol belongs to: the component before the member name of a
\* nested member function, the (last) component of a vtable's class.
HasClass(m) ==
    /\ Reading(m).ok
    /\ IF IsSpecial(m) THEN Substr(m, 0, 4) = S_ZTV
       ELSE Reading(m).nested /\ Len(Reading(m).tokens) >= 2

ClassOf(m) ==
    LET t == Reading(m).tokens
    IN  IF IsSpecial(m) THEN t[Len(t)] ELSE t[Len(t) - 1]

\* The C... tokens an obfuscated name carries.
ClassTokens(out) ==
    {Reading(out).tokens[i] : i \in {j \in 1..Len(Reading(out).tokens) :
                                        Reading(out).tokens[j][1] = "C"}}

\* C8: within one codec instance, every symbol of a class carries one C...
\* token, the same in all of them: methods of the class and its vtable.
C8_ClassTokenIdentity ==
    \A m1 \in DOMAIN mangler_mapping_ : \A m2 \in DOMAIN mangler_mapping_ :
        (HasClass(m1) /\ HasClass(m2) /\ ClassOf(m1) = ClassOf(m2)) =>
            /\ Cardinality(ClassTokens(mangler_mapping_[m1])) = 1
            /\ ClassTokens(mangler_mapping_[m1]) = ClassTokens(mangler_mapping_[m2])

AllHex(s) ==
    /\ s # <<>>
    /\ \A i \in 1..Len(s) : \E k \in 1..Len(HexDigits) : HexDigits[k] = s[i]

\* C24: a _Z name that does not read as a name (its N...E is not closed, or a
\* length is zero, missing or larger than what is left) is mapped to _Z
\* followed by one hash and nothing else: no N, no length-prefixed token for
\* a component read before the error, no E, no parameter code.
C24_MalformedFallback ==
    \A m \in DOMAIN mangler_mapping_ :
        (~IsSpecial(m) /\ ~Reading(m).ok) =>
            /\ Substr(mangler_mapping_[m], 0, 2) = S_Z
            /\ AllHex(Substr(mangler_mapping_[m], 2, Len(mangler_mapping_[m])))

\* ------------------------------------------------------------- parser spec
\* The names handed to CppDemangler::parse: nested names of one to MaxTokens
\* length-prefixed tokens, closed by E and followed by v or cut off before the
\* E, and names whose length prefix is zero, too large for what is left, or
\* at the limit of size_t.
P_a == <<"1", "a">>
P_bc == <<"2", "b", "c">>
S_ZN == <<"_", "Z", "N">>
P_zero == <<"_", "Z", "N", "0", "E">>
P_empty == <<"_", "Z", "N", "E">>
P_two64 ==
    <<"_", "Z", "N", "1", "8", "4", "4", "6", "7", "4", "4", "0", "7", "3",
      "7", "0", "9", "5", "5", "1", "6", "1", "6", "a", "E">>
P_back20 ==
    <<"_", "Z", "N", "1", "8", "4", "4", "6", "7", "4", "4", "0", "7", "3",
      "7", "0", "9", "5", "5", "1", "5", "9", "6", "E">>
P_max ==
    <<"_", "Z", "N", "1", "a", "1", "8", "4", "4", "6", "7", "4", "4", "0",
      "7", "3", "7", "0", "9", "5", "5", "1", "6", "1", "5", "E">>

MaxTokens == 4

TokenRuns == UNION {[1..k -> {P_a, P_bc}] : k \in 1..MaxTokens}

ParsePool ==
    {S_ZN \o Concat(run) \o tail : run \in TokenRuns, tail \in {<<"E", "v">>, <<>>}}
    \cup {M_bad_len, M_vtable, M_foo_v, P_zero, P_empty, P_two64, P_back20, P_max}

\* A caller invokes CppDemangler::parse(mangled_name): the code up to the loop.
ParseCall ==
    \E mangled_name \in ParsePool :
    \E entry \in {ParseEntry(mangled_name)} :
        /\ call.op = "parse" => ~call.looping
        /\ call' = [op |-> "parse", name |-> mangled_name, looping |-> entry.looping,
                    pos |-> entry.pos, components |-> entry.components]
        /\ UNCHANGED <<hasherVars, manglerVars, driverVars>>

\* One iteration of the nested-name loop of the call in progress.
ParseLoopStep ==
    /\ call.op = "parse"
    /\ call.looping
    /\ \E it \in {ParseIteration(call.name, call.pos, call.components)} :
          call' = [call EXCEPT !.looping = it.looping, !.pos = it.pos,
                               !.components = it.components]
    /\ UNCHANGED <<hasherVars, manglerVars, driverVars>>

InitParse == InitHasher

NextParse == ParseCall \/ ParseLoopStep

SpecParse == InitParse /\ [][NextParse]_vars

\* ---------------------------------------------------- claims on the parser
\* token is a substring of text.
Occurs(token, text) ==
    \E p \in 0..(Len(text) - Len(token)) : Substr(text, p, Len(token)) = token

\* C22: when parse has returned for a nested name _ZN t1 ... tk E..., its
\* namespace_name is t1, for k >= 2 its class_name is t2, and for k >= 3 its
\* method_name holds every one of t3..tk (and is t3 when k = 3).
C22_ComponentAssignment ==
    (/\ call.op = "parse" /\ ~call.looping
     /\ Reading(call.name).nested /\ Reading(call.name).ok) =>
        LET t == Reading(call.name).tokens
        IN  /\ call.components.namespace_name = t[1]
            /\ Len(t) >= 2 => call.components.class_name = t[2]
            /\ Len(t) = 3 => call.components.method_name = t[3]
            /\ \A i \in 3..Len(t) : Occurs(t[i], call.components.method_name)

\* C23: every iteration of the nested-name loop of parse either leaves the
\* loop or leaves the read position further on than it found it.
C23_ParseProgress ==
    [][(call.op = "parse" /\ call.looping) =>
          (~call'.looping \/ call'.pos > call.pos)]_vars

\* ------------------------------------------------- source-text driver spec
\* Input files, as the declarations the scanner matches in them: functions
\* first, then variables.
U_fn_var ==
    <<"i", "n", "t", " ", "f", "o", "o", "(", ")", "{", "}", " ", "i", "n",
      "t", " ", "b", "a", "r", ";">>
U_main ==
    <<"i", "n", "t", " ", "m", "a", "i", "n", "(", ")", "{", "}", " ", "i",
      "n", "t", " ", "f", "o", "o", "(", ")", "{", "}">>
U_lib ==
    <<"i", "n", "t", " ", "s", "t", "r", "l", "e", "n", "(", ")", "{", "}",
      " ", "i", "n", "t", " ", "_", "_", "i", "n", "i", "t", "(", ")", "{",
      "}">>
U_three ==
    <<"i", "n", "t", " ", "f", "o", "o", "(", ")", "{", "}", " ", "i", "n",
      "t", " ", "f", "o", "o", "(", ")", "{", "}", " ", "i", "n", "t", " ",
      "f", "o", "o", "(", ")", "{", "}">>
U_shadow ==
    <<"i", "n", "t", " ", "f", "o", "o", "(", ")", "{", "}", " ", "i", "n",
      "t", " ", "b", "a", "r", "(", ")", "{", "}", " ", "i", "n", "t", " ",
      "f", "o", "o", ";">>
U_locals ==
    <<"v", "o", "i", "d", " ", "f", "(", ")", "{", "i", "n", "t", " ", "i",
      ";", "}", " ", "v", "o", "i", "d", " ", "g", "(", ")", "{", "i", "n",
      "t", " ", "i", ";", "}">>
U_kept ==
    <<"i", "n", "t", " ", "m", "a", "i", "n", "(", ")", "{", "}", " ", "i",
      "n", "t", " ", "_", "_", "x", ";">>

\* The input files the tool is run on.
\* The declarations of test_layer0/simple_auth: a global of pointer type, a
\* function that takes a pointer, and main.
U_auth ==
    <<"c", "o", "n", "s", "t", " ", "c", "h", "a", "r", "*", " ", "M", "A",
      "S", "T", "E", "R", "_", "P", "A", "S", "S", "W", "O", "R", "D", " ",
      "=", " ", "\"", "x", "\"", ";", " ", "i", "n", "t", " ", "v", "a", "l",
      "i", "d", "a", "t", "e", "_", "p", "a", "s", "s", "w", "o", "r", "d",
      "(", "c", "o", "n", "s", "t", " ", "c", "h", "a", "r", "*", " ", "u",
      ")", "{", "}", " ", "i", "n", "t", " ", "m", "a", "i", "n", "(", ")",
      "{", "p", "r", "i", "n", "t", "f", "(", "u", ")", ";", " ", "s", "t",
      "r", "c", "m", "p", "(", "u", ",", " ", "u", ")", ";", "}">>

TextSources ==
    {U_fn_var, U_main, U_lib, U_three, U_shadow}

\* The runs in `active` of the tool on the same input with the same options;
\* the other runs are never started.
InitTextRuns(active, sources, map_flags) ==
    /\ config_ \in {[DefaultHashConfig EXCEPT !.global_salt = salt, !.prefix_style = style] :
                      salt \in Salts, style \in PrefixStyles}
    /\ oracle = <<>>
    /\ used_hashes_ = [r \in Runs |-> {}]
    /\ call = NoCall
    /\ InitMangler
    /\ opts \in [preserve_main : BOOLEAN, preserve_stdlib : BOOLEAN,
                 generate_map : map_flags]
    /\ obf_config_ = CliObfuscationConfig(opts)
    /\ source_code \in sources
    /\ unit = regexMatches(source_code)
    /\ obfuscated_code = [r \in Runs |-> NoFile]
    /\ mapping_file = [r \in Runs |-> NoFile]
    /\ symbols = [r \in Runs |-> <<>>]
    /\ mapping = [r \in Runs |-> EmptyMap]
    /\ mappings_ = [r \in Runs |-> <<>>]
    /\ used_names_ = [r \in Runs |-> {}]
    /\ pc = [r \in Runs |-> IF r \in active THEN "analyze" ELSE "idle"]
    /\ idx = [r \in Runs |-> 0]
    /\ InitPassIdle

\* Two independent runs of the tool on the same input with the same options.
InitText == InitTextRuns(Runs, TextSources, {TRUE})

NextText ==
    \E r \in Runs :
        \/ AnalyzeSymbols(r)
        \/ GenerateMappingStep(r)
        \/ FinishObfuscateSymbols(r)

SpecText == InitText /\ [][NextText]_vars

\* One run of the tool, with or without --no-map, on every input of the model.
OneRunSources == TextSources \cup {U_locals, U_kept, U_auth}

InitOneRun == InitTextRuns({1}, OneRunSources, BOOLEAN)

SpecOneRun == InitOneRun /\ [][NextText]_vars

\* A hasher called directly with a caller's set, or one run of the tool.
InitCallOrRun == InitHasher \/ InitOneRun

NextCallOrRun ==
    \/ pc[1] = "idle" /\ NextHasher
    \/ NextText

SpecCallOrRun == InitCallOrRun /\ [][NextCallOrRun]_vars

\* C30: a generateUniqueHash call that fails with too many collisions leaves
\* the caller's set and the hasher's own set as it found them; the step of
\* generateMapping in which the hasher fails changes neither the hasher's set
\* nor the driver's records, and a run that failed has written neither its
\* output file nor its mapping file.
C30_FailureAtomicity ==
    /\ []((call.op = "generateUniqueHash" /\ call.threw) =>
             /\ call.used_after = call.used_before
             /\ call.own_after = call.own_before
             /\ used_hashes_[1] = call.own_before)
    /\ [][\A r \in Runs :
            (pc[r] = "generate" /\ pc'[r] = "failed") =>
                /\ used_hashes_'[r] = used_hashes_[r]
                /\ used_names_'[r] = used_names_[r]
                /\ mapping'[r] = mapping[r]
                /\ mappings_'[r] = mappings_[r]]_vars
    /\ [](\A r \in Runs :
            pc[r] = "failed" =>
                /\ obfuscated_code[r] = NoFile
                /\ mapping_file[r] = NoFile)

\* A direct call has failed on a hasher and a caller's set that are not
\* empty; a run has failed after it had recorded a name.
C30_WitnessCall ==
    /\ call.op = "generateUniqueHash"
    /\ call.threw
    /\ call.used_before # {}
    /\ call.own_before # {}

C30_Witness ==
    /\ pc[1] = "failed"
    /\ mappings_[1] # <<>>
    /\ used_hashes_[1] # {}

\* ------------------------------------------ claims on the source-text driver
Finished(r) == pc[r] \in {"done", "failed"}

\* C2: two independent runs on the same configuration, salt and symbol
\* sequence that have processed the same number of symbols hold the same
\* mapping, and they end alike: both succeed or both fail at the same symbol.
C2_Determinism ==
    /\ (pc[1] # "analyze" /\ pc[2] # "analyze") => symbols[1] = symbols[2]
    /\ (pc[1] # "analyze" /\ pc[2] # "analyze" /\ idx[1] = idx[2]) =>
          /\ mapping[1] = mapping[2]
          /\ mappings_[1] = mappings_[2]
    /\ (Finished(1) /\ Finished(2)) => (pc[1] = pc[2] /\ idx[1] = idx[2])

\* Both runs have finished a unit in which the collision counter was used:
\* some symbol got a name other than prefix||hash(name).
C2_Witness ==
    /\ pc[1] = "done" /\ pc[2] = "done"
    /\ mapping[1] = mapping[2]
    /\ \E i \in 1..Len(mappings_[1]) :
          mappings_[1][i].obfuscated_name #
             applyPrefix(config_,
                         generateHash(oracle, config_, mappings_[1][i].original_name, <<>>),
                         TypedPrefix(config_, HashKind(mappings_[1][i].type)))

\* The preservation predicate as the specification states it.
LanguageKeywords == cpp_keywords \ {S_main}

SpecPreserved(name) ==
    \/ name \in obf_config_.preserve_symbols
    \/ opts.preserve_main /\ name = S_main
    \/ StartsWith(name, S_uu)
    \/ StartsWith(name, S_llvm_dot)
    \/ StartsWith(name, S_cxa)
    \/ opts.preserve_stdlib /\ name \in stdlib_funcs
    \/ matchesPreservePattern(name)
    \/ name \in LanguageKeywords

\* C3: a name that satisfies the preservation predicate is never renamed:
\* it is no key of a run's mapping and no entry of its exported mappings.
C3_PreservationCorrectness ==
    \A r \in Runs :
        /\ \A n \in DOMAIN mapping[r] : ~SpecPreserved(n)
        /\ \A i \in 1..Len(mappings_[r]) : ~SpecPreserved(mappings_[r][i].original_name)

UnitDefines(name) == \E i \in 1..Len(unit) : unit[i].original_name = name

\* C4: with main-preservation switched off and a unit that defines main, a
\* finished run has renamed main to f_<hash>, and printf is not renamed.
C4_NoPreserveMain ==
    \A r \in Runs :
        (pc[r] = "done" /\ ~opts.preserve_main /\ UnitDefines(S_main)) =>
            /\ S_main \in DOMAIN mapping[r]
            /\ StartsWith(mapping[r][S_main], S_f)
            /\ S_printf \notin DOMAIN mapping[r]

\* ---------------------------------------------------- text rewriter spec
\* The texts, original names and obfuscated names the rewriter is called on.
T_call ==
    <<"f", "o", "o", "(", "f", "o", "o", "_", "1", ")", "+", "f", "o", "o">>
T_suffix == <<"x", "f", "o", "o", " ", "f", "o", "o", ";", "f", "o", "o">>
T_adjacent == <<"f", "o", "o", "f", "o", "o", " ", "f", "o", "o">>
T_expr == <<"a", "=", "f", "o", "o", "+", "b", "a", "r", "*", "a", ";">>
T_runs == <<"a", "a", " ", "a", " ", "a", "a", "a", " ", "a">>
T_word == <<"f", "o", "o">>
T_empty == <<>>
T_under == <<"_", "f", "o", "o", " ", "f", "o", "o", "_", " ", "f", "o", "o">>
T_overlap == <<"f", "o", "f", "o", "o", " ", "a", "a", "a", " ", "a", "a">>
T_both ==
    <<"f", "o", "o", "_", "b", "a", "r", "(", "f", "o", "o", ")", "+", "f",
      "o", "o", "_", "b", "a", "r">>
S_foo_bar == <<"f", "o", "o", "_", "b", "a", "r">>
S_aa == <<"a", "a">>
O_f == <<"f", "_", "a", "7", "b", "8">>
O_v == <<"v", "_", "3", "c", "4", "d">>
O_us == <<"_", "a", "7", "b", "8">>

RewriteTexts ==
    {T_call, T_suffix, T_adjacent, T_expr, T_runs,
     T_word, T_empty, T_under, T_overlap, T_both}

RewriteOriginals == {S_foo, S_bar, S_a, S_aa}

RewriteObfuscated == {O_f, O_v, O_us}

RewriteMappings ==
    {EmptyMap,
     MapPut(EmptyMap, S_foo, O_f),
     MapPut(MapPut(EmptyMap, S_foo, O_f), S_bar, O_v),
     MapPut(MapPut(MapPut(EmptyMap, S_foo, O_f), S_a, O_v), S_aa, O_us),
     MapPut(MapPut(EmptyMap, S_a, O_f), S_aa, O_v),
     MapPut(MapPut(EmptyMap, S_foo, S_bar), S_bar, O_f),
     MapPut(MapPut(EmptyMap, S_foo, O_f), S_foo_bar, O_v)}

\* A caller invokes replaceSymbol(code, original, obfuscated).
ReplaceSymbolCall ==
    \E code \in RewriteTexts, original \in RewriteOriginals,
       obfuscated \in RewriteObfuscated :
        /\ call' = [op |-> "replaceSymbol", code |-> code, original |-> original,
                    obfuscated |-> obfuscated,
                    result |-> replaceSymbol(code, original, obfuscated)]
        /\ UNCHANGED <<hasherVars, manglerVars, driverVars>>

\* A caller invokes applyObfuscation(source_code, mapping, obfuscated_code).
ApplyObfuscationCall ==
    \E source \in RewriteTexts, m \in RewriteMappings :
    \E order \in SortedOrders(m) :
        /\ call' = [op |-> "applyObfuscation", source_code |-> source,
                    mapping |-> m, order |-> order,
                    result |-> applyObfuscation(source, m, order)]
        /\ UNCHANGED <<hasherVars, manglerVars, driverVars>>

NextRewrite == ReplaceSymbolCall \/ ApplyObfuscationCall

SpecRewrite == InitHasher /\ [][NextRewrite]_vars

\* ------------------------------------------------ claims on the rewriter
\* Identifier characters, and whole-word occurrences in the input text.
IdentChars == Letters \cup {Digits[i] : i \in 1..10} \cup {"_"}

OccursAt(code, word, p) ==
    p + Len(word) <= Len(code) /\ SubSeq(code, p + 1, p + Len(word)) = word

WholeWordAt(code, word, p) ==
    /\ OccursAt(code, word, p)
    /\ p > 0 => code[p] \notin IdentChars
    /\ p + Len(word) < Len(code) => code[p + Len(word) + 1] \notin IdentChars

\* The input read from position p on, with every whole-word occurrence of
\* word replaced by new and every other character copied.
RECURSIVE WholeWordsReplaced(_, _, _, _)
WholeWordsReplaced(code, word, new, p) ==
    IF p >= Len(code) THEN <<>>
    ELSE IF WholeWordAt(code, word, p)
         THEN new \o WholeWordsReplaced(code, word, new, p + Len(word))
         ELSE <<code[p + 1]>> \o WholeWordsReplaced(code, word, new, p + 1)

\* C15: replaceSymbol replaces exactly the occurrences of original whose
\* neighbours in the input are not identifier characters; an occurrence
\* inside a longer identifier, and every other character, is left as it was.
C15_WholeWordSubstitution ==
    call.op = "replaceSymbol" =>
        call.result = WholeWordsReplaced(call.code, call.original, call.obfuscated, 0)

\* A call on a text that holds both a whole-word occurrence and an occurrence
\* inside a longer identifier.
C15_Witness ==
    /\ call.op = "replaceSymbol"
    /\ \E p \in 0..Len(call.code) : WholeWordAt(call.code, call.original, p)
    /\ \E p \in 0..Len(call.code) :
          /\ OccursAt(call.code, call.original, p)
          /\ ~WholeWordAt(call.code, call.original, p)
    /\ call.result # call.code

\* The identifier that starts at position p of the input (empty if none).
RECURSIVE IdentifierAt(_, _)
IdentifierAt(code, p) ==
    IF p < Len(code) /\ code[p + 1] \in IdentChars
    THEN <<code[p + 1]>> \o IdentifierAt(code, p + 1)
    ELSE <<>>

\* The input read from position p on (p at the start of a token), with every
\* identifier that is a mapped original name replaced by its obfuscated name.
RECURSIVE MappedWordsReplaced(_, _, _)
MappedWordsReplaced(code, m, p) ==
    IF p >= Len(code) THEN <<>>
    ELSE IF code[p + 1] \notin IdentChars
         THEN <<code[p + 1]>> \o MappedWordsReplaced(code, m, p + 1)
         ELSE (IF IdentifierAt(code, p) \in DOMAIN m THEN m[IdentifierAt(code, p)]
               ELSE IdentifierAt(code, p))
              \o MappedWordsReplaced(code, m, p + Len(IdentifierAt(code, p)))

NoObfuscatedIsOriginal(m) == \A k \in DOMAIN m : m[k] \notin DOMAIN m

\* C16: when no obfuscated name is a mapped original name, the output of
\* applyObfuscation is the input with every whole-word occurrence of a mapped
\* original name replaced by its obfuscated name, and nothing else changed.
C16_ReferenceIntegrity ==
    (call.op = "applyObfuscation" /\ NoObfuscatedIsOriginal(call.mapping)) =>
        call.result = MappedWordsReplaced(call.source_code, call.mapping, 0)

\* A call with several mapped names on a text where a non-whole-word match of
\* one of them comes before a whole-word match.
C16_Witness ==
    /\ call.op = "applyObfuscation"
    /\ NoObfuscatedIsOriginal(call.mapping)
    /\ Cardinality(DOMAIN call.mapping) >= 2
    /\ \E k \in DOMAIN call.mapping :
       \E p, q \in 0..Len(call.source_code) :
          /\ p < q
          /\ OccursAt(call.source_code, k, p)
          /\ ~WholeWordAt(call.source_code, k, p)
          /\ WholeWordAt(call.source_code, k, q)
    /\ call.result # call.source_code

\* The identifiers of the text from position p on, in the order they stand in.
RECURSIVE Identifiers(_, _)
Identifiers(code, p) ==
    IF p >= Len(code) THEN <<>>
    ELSE IF code[p + 1] \notin IdentChars THEN Identifiers(code, p + 1)
    ELSE <<IdentifierAt(code, p)>> \o Identifiers(code, p + Len(IdentifierAt(code, p)))

Contains(word, part) ==
    \E p \in 0..(Len(word) - Len(part)) : OccursAt(word, part, p)

PlaceIn(order, key) == CHOOSE i \in DOMAIN order : order[i] = key

C17_MappingBijection ==
    \A r \in Runs :
        pc[r] = "done" =>
            /\ \A i, j \in 1..Len(mappings_[r]) :
                  i # j =>
                      /\ mappings_[r][i].original_name # mappings_[r][j].original_name
                      /\ mappings_[r][i].obfuscated_name # mappings_[r][j].obfuscated_name
            /\ \A i \in 1..Len(mappings_[r]) :
                  /\ mappings_[r][i].original_name \in DOMAIN mapping[r]
                  /\ mapping[r][mappings_[r][i].original_name] =
                         mappings_[r][i].obfuscated_name
            /\ mapping_file[r].exists =>
                  importMapping(mapping_file[r]) = mappings_[r]

TypedName(identifier, prefix) ==
    /\ Len(identifier) = Len(prefix) + 12
    /\ SubSeq(identifier, 1, Len(prefix)) = prefix
    /\ IsHexString(SubSeq(identifier, Len(prefix) + 1, Len(identifier)), 12)

\* C21: a finished run on the input that defines
\* `int validate_password(const char*) {...}` and the pointer-typed global
\* `const char* MASTER_PASSWORD = ...;`, under style TYPED, length 12 and the
\* default preservation, has renamed validate_password to f_ + 12 hex and
\* MASTER_PASSWORD to v_ + 12 hex, and has renamed none of main, printf, strcmp.
C21_ScenarioS1 ==
    \A r \in Runs :
        (/\ pc[r] = "done"
         /\ source_code = U_auth
         /\ opts.preserve_main /\ opts.preserve_stdlib
         /\ config_.prefix_style = "TYPED") =>
            /\ S_validate_password \in DOMAIN mapping[r]
            /\ TypedName(mapping[r][S_validate_password], S_f)
            /\ S_MASTER_PASSWORD \in DOMAIN mapping[r]
            /\ TypedName(mapping[r][S_MASTER_PASSWORD], S_v)
            /\ DOMAIN mapping[r] \cap {S_main, S_printf, S_strcmp} = {}

\* ------------------------------------------------------------ IR pass spec
\* The modules the pass is run on.
Module(functions, globals, aliases) ==
    [name |-> S_m, source_file |-> S_m_c, functions |-> functions,
     globals |-> globals, aliases |-> aliases, last_unique |-> 0]

PassModules ==
    {Module(<<GlobalValue(S_foo, FALSE), GlobalValue(S_printf, TRUE),
              GlobalValue(S_main, FALSE)>>,
            <<GlobalValue(S_bar, FALSE), GlobalValue(S_llvm_used, FALSE)>>,
            <<GlobalValue(S_helper, FALSE)>>),
     Module(<<GlobalValue(M_foo_v, FALSE), GlobalValue(M_foo_i, FALSE),
              GlobalValue(S_strlen, FALSE)>>,
            <<GlobalValue(M_vtable, FALSE)>>,
            <<>>),
     Module(<<GlobalValue(S_foo, FALSE), GlobalValue(S_bar, FALSE),
              GlobalValue(S_helper, FALSE)>>,
            <<>>,
            <<>>),
     Module(<<GlobalValue(S_uu_init, FALSE), GlobalValue(S_printf, TRUE)>>,
            <<GlobalValue(S_llvm_used, FALSE)>>,
            <<GlobalValue(S_main, FALSE)>>)}

\* A pass constructed with or without a salt, configured through its setters.
InitPass ==
    /\ salt_ \in Salts
    /\ config_ = [DefaultHashConfig EXCEPT !.global_salt = salt_]
    /\ oracle = <<>>
    /\ used_hashes_ = [r \in Runs |-> {}]
    /\ call = NoCall
    /\ InitMangler
    /\ InitTextIdle
    /\ used_names_ = [r \in Runs |-> {}]
    /\ pc = [r \in Runs |-> IF r = 1 THEN "run" ELSE "idle"]
    /\ idx = [r \in Runs |-> 0]
    /\ preserve_main_ \in BOOLEAN
    /\ preserve_stdlib_ \in BOOLEAN
    /\ obfuscate_globals_ \in BOOLEAN
    /\ generate_map_ \in BOOLEAN
    /\ preserve_symbols_ = PassPreserveSymbols
    /\ mapping_ = EmptyMap
    /\ module \in PassModules
    /\ map_file = EmptyMap

NextPass ==
    \/ RunBegin
    \/ ObfuscateFunctionsStep
    \/ ObfuscateGlobalVariablesStep
    \/ ObfuscateAliasesStep
    \/ SaveMapping

SpecPass == InitPass /\ [][NextPass]_vars

\* The pass manager runs the same pass instance on a second module once the
\* first is done: run() is entered again with every member as the first run
\* left it.
S_n == <<"n">>
S_n_c == <<"n", ".", "c">>

SecondModules ==
    {[name |-> S_n, source_file |-> S_n_c,
      functions |-> <<GlobalValue(S_helper, FALSE)>>,
      globals |-> <<>>, aliases |-> <<>>, last_unique |-> 0]}

RunNextModule ==
    /\ pc[1] = "done"
    /\ module.name = S_m
    /\ module' \in SecondModules
    /\ pc' = [pc EXCEPT ![1] = "run"]
    /\ idx' = [idx EXCEPT ![1] = 0]
    /\ UNCHANGED <<hasherVars, call, manglerVars, textVars, used_names_,
                   preserve_main_, preserve_stdlib_, obfuscate_globals_, generate_map_,
                   salt_, preserve_symbols_, mapping_, map_file>>

NextPassSeries == NextPass \/ RunNextModule

SpecPassSeries == InitPass /\ [][NextPassSeries]_vars

\* ------------------------------------------------- claims on the IR pass
\* C1: in one run, two distinct original names that were renamed - flat names
\* through generateUniqueHash, mangled names through the codec - are recorded
\* with different obfuscated names.
C1_InjectiveWithinUnit ==
    \A n1 \in DOMAIN mapping_ : \A n2 \in DOMAIN mapping_ :
        n1 # n2 => mapping_[n1] # mapping_[n2]

\* A value of the list has been renamed / is renamed by this step.
RenamedIn(list) == \E i \in 1..Len(module[list]) : module[list][i].name # module[list][i].original

RenamesIn(list) ==
    /\ Len(module'[list]) = Len(module[list])
    /\ \E i \in 1..Len(module[list]) : module'[list][i].name # module[list][i].name

\* C26: in a run of the pass, a step that renames a function finds no global
\* variable and no alias renamed; a step that renames a global variable is
\* taken only with obfuscate_globals_ set and finds no alias renamed; every
\* renaming step finds the mapping file unwritten; and the step that writes
\* the mapping file is taken only with generate_map_ set, renames nothing and
\* writes the whole of mapping_.
C26_DriverOrdering ==
    [][module # EmptyModule =>
          /\ RenamesIn("functions") => ~RenamedIn("globals") /\ ~RenamedIn("aliases")
          /\ RenamesIn("globals") => obfuscate_globals_ /\ ~RenamedIn("aliases")
          /\ (RenamesIn("functions") \/ RenamesIn("globals") \/ RenamesIn("aliases")) =>
                map_file = EmptyMap /\ map_file' = EmptyMap
          /\ map_file' # map_file =>
                /\ generate_map_
                /\ module' = module /\ mapping_' = mapping_
                /\ map_file'.symbols = mapping_]_vars

\* A run that renamed a function, a global variable and an alias and then
\* wrote the mapping file.
C26_Witness ==
    /\ pc[1] = "done"
    /\ module # EmptyModule
    /\ RenamedIn("functions") /\ RenamedIn("globals") /\ RenamedIn("aliases")
    /\ map_file # EmptyMap
    /\ Cardinality(DOMAIN map_file.symbols) >= 3

\* C27: every obfuscated name recorded in mapping_ - from the hasher for a
\* flat name, from the codec for a mangled name - is in the used_names_ set
\* the pass hands to generateUniqueHash.
C27_UsedNameTracking ==
    module # EmptyModule =>
        \A original_name \in DOMAIN mapping_ : mapping_[original_name] \in used_names_[1]

\* The pass was constructed without a salt: the salt it holds is none of the
\* salts a constructor is given.
GivenNoSalt == salt_ \notin (Salts \ {<<>>})

\* C28: while the symbols of a module are hashed by a pass that was given no
\* salt, the hasher's salt is the module salt of that module:
\* generateHash(name followed by source file name, "module_salt") of a
\* default hasher.
C28_ModuleSalt ==
    (/\ module # EmptyModule
     /\ pc[1] \in {"functions", "globals", "aliases"}
     /\ GivenNoSalt) =>
        /\ OracleKey(DefaultHashConfig, ModuleSaltInput(module)) \in DOMAIN oracle
        /\ config_.global_salt = generateModuleSalt(oracle, module)

K_o == <<"-", "o">>
K_output == <<"-", "-", "o", "u", "t", "p", "u", "t">>
K_m == <<"-", "m">>
K_map == <<"-", "-", "m", "a", "p">>
K_a == <<"-", "a">>
K_algorithm == <<"-", "-", "a", "l", "g", "o", "r", "i", "t", "h", "m">>
K_p == <<"-", "p">>
K_prefix == <<"-", "-", "p", "r", "e", "f", "i", "x">>
K_l == <<"-", "l">>
K_length == <<"-", "-", "l", "e", "n", "g", "t", "h">>
K_s == <<"-", "s">>
K_salt == <<"-", "-", "s", "a", "l", "t">>
K_no_preserve_main ==
    <<"-", "-", "n", "o", "-", "p", "r", "e", "s", "e", "r", "v", "e", "-",
      "m", "a", "i", "n">>
K_no_preserve_stdlib ==
    <<"-", "-", "n", "o", "-", "p", "r", "e", "s", "e", "r", "v", "e", "-",
      "s", "t", "d", "l", "i", "b">>
K_no_map == <<"-", "-", "n", "o", "-", "m", "a", "p">>
K_cpp == <<"-", "-", "c", "p", "p">>
K_v == <<"-", "v">>
K_verbose == <<"-", "-", "v", "e", "r", "b", "o", "s", "e">>
K_h == <<"-", "h">>
K_help == <<"-", "-", "h", "e", "l", "p">>
K_sha256 == <<"s", "h", "a", "2", "5", "6">>
K_blake2b == <<"b", "l", "a", "k", "e", "2", "b">>
K_siphash == <<"s", "i", "p", "h", "a", "s", "h">>
K_none == <<"n", "o", "n", "e">>
K_typed == <<"t", "y", "p", "e", "d">>
K_underscore == <<"u", "n", "d", "e", "r", "s", "c", "o", "r", "e">>
K_symbol_map_json ==
    <<"s", "y", "m", "b", "o", "l", "_", "m", "a", "p", ".", "j", "s", "o",
      "n">>

\* CliOptions' default member initialisers.
CliDefaults ==
    [input_file |-> <<>>, output_file |-> <<>>, map_file |-> K_symbol_map_json,
     hash_algo |-> "SHA256", prefix_style |-> "TYPED", hash_length |-> 12,
     salt |-> <<>>, preserve_main |-> TRUE, preserve_stdlib |-> TRUE,
     generate_map |-> TRUE, verbose |-> FALSE, is_cpp |-> FALSE]

\* What getopt_long returns for one argv element: the option's code, "?" for
\* an element that starts with `-` and names no option, "arg" for a non-option
\* element (options are matched by their exact short or long spelling, with
\* the argument in the next element).
OptionOf(token) ==
    CASE token \in {K_o, K_output} -> "o"
      [] token \in {K_m, K_map} -> "m"
      [] token \in {K_a, K_algorithm} -> "a"
      [] token \in {K_p, K_prefix} -> "p"
      [] token \in {K_l, K_length} -> "l"
      [] token \in {K_s, K_salt} -> "s"
      [] token = K_no_preserve_main -> "1001"
      [] token = K_no_preserve_stdlib -> "1002"
      [] token = K_no_map -> "1003"
      [] token = K_cpp -> "1004"
      [] token \in {K_v, K_verbose} -> "v"
      [] token \in {K_h, K_help} -> "h"
      [] OTHER -> IF Len(token) >= 2 /\ token[1] = "-" THEN "?" ELSE "arg"

required_argument(c) == c \in {"o", "m", "a", "p", "l", "s"}

\* How parseOptions can end: it returns true with the options, returns false,
\* calls exit(0), or is left by an exception.
Parsed(o) == [kind |-> "true", opts |-> o]
ReturnedFalse == [kind |-> "false"]
Exited0 == [kind |-> "exit"]
Threw == [kind |-> "throw"]

\* The code after the while loop: the first non-option element is the input
\* file (getopt_long has moved the non-option elements behind the options).
AfterOptions(o, args) ==
    IF args = <<>> THEN ReturnedFalse
    ELSE IF o.output_file = <<>> THEN ReturnedFalse
    ELSE Parsed([o EXCEPT !.input_file = args[1]])

\* The switch of the while loop for an option that takes an argument: the
\* options after it, or how parseOptions ends.
WithArgument(o, c, optarg) ==
    CASE c = "o" -> Parsed([o EXCEPT !.output_file = optarg])
      [] c = "m" -> Parsed([o EXCEPT !.map_file = optarg])
      [] c = "a" ->
            IF optarg = K_sha256 THEN Parsed([o EXCEPT !.hash_algo = "SHA256"])
            ELSE IF optarg = K_blake2b THEN Parsed([o EXCEPT !.hash_algo = "BLAKE2B"])
            ELSE IF optarg = K_siphash THEN Parsed([o EXCEPT !.hash_algo = "SIPHASH"])
            ELSE ReturnedFalse
      [] c = "p" ->
            IF optarg = K_none THEN Parsed([o EXCEPT !.prefix_style = "NONE"])
            ELSE IF optarg = K_typed THEN Parsed([o EXCEPT !.prefix_style = "TYPED"])
            ELSE IF optarg = K_underscore
                 THEN Parsed([o EXCEPT !.prefix_style = "UNDERSCORE"])
            ELSE ReturnedFalse
      [] c = "l" ->
            IF stoi(optarg).threw THEN Threw
            ELSE Parsed([o EXCEPT !.hash_length = stoi(optarg).value])
      [] c = "s" -> Parsed([o EXCEPT !.salt = optarg])

\* The switch for an option without argument.
WithFlag(o, c) ==
    CASE c = "1001" -> [o EXCEPT !.preserve_main = FALSE]
      [] c = "1002" -> [o EXCEPT !.preserve_stdlib = FALSE]
      [] c = "1003" -> [o EXCEPT !.generate_map = FALSE]
      [] c = "1004" -> [o EXCEPT !.is_cpp = TRUE]
      [] c = "v" -> [o EXCEPT !.verbose = TRUE]

\* The while loop of parseOptions from argv element i on, with the non-option
\* elements seen so far; NextOption is its body for the code c.
RECURSIVE getoptLoop(_, _, _, _)
RECURSIVE NextOption(_, _, _, _, _)
RECURSIVE AfterArgument(_, _, _, _)
getoptLoop(argv, i, o, args) ==
    IF i > Len(argv) THEN AfterOptions(o, args)
    ELSE NextOption(argv, i, o, args, OptionOf(argv[i]))

NextOption(argv, i, o, args, c) ==
    IF c = "arg" THEN getoptLoop(argv, i + 1, o, Append(args, argv[i]))
    ELSE IF c = "?" THEN ReturnedFalse
    ELSE IF c = "h" THEN Exited0
    ELSE IF required_argument(c)
         THEN IF i = Len(argv) THEN ReturnedFalse
              ELSE AfterArgument(argv, i, args, WithArgument(o, c, argv[i + 1]))
    ELSE getoptLoop(argv, i + 1, WithFlag(o, c), args)

AfterArgument(argv, i, args, outcome) ==
    IF outcome.kind = "true" THEN getoptLoop(argv, i + 2, outcome.opts, args)
    ELSE outcome

\* argv[1..] as the sequence argv here.
parseOptions(argv) == getoptLoop(argv, 1, CliDefaults, <<>>)

\* main()'s HashConfig and the flags that reach the driver.
CliHashConfig(o) ==
    [algorithm |-> o.hash_algo, prefix_style |-> o.prefix_style,
     hash_length |-> o.hash_length, global_salt |-> o.salt]

CliFlags(o) ==
    [preserve_main |-> o.preserve_main, preserve_stdlib |-> o.preserve_stdlib,
     generate_map |-> o.generate_map]

\* How the process ended: main returned status, exit(status) was called, or
\* std::terminate ran for an exception nothing caught (SIGABRT).
Running(argv) == [op |-> "main", argv |-> argv, ended |-> FALSE, how |-> "none", status |-> 0]

Ended(argv, how, status) ==
    [op |-> "main", argv |-> argv, ended |-> TRUE, how |-> how, status |-> status]

\* main() up to the call of obfuscateSymbols and its first readFile, for a
\* command line that parsed to options o.
StartCore(argv, o, files, unwritable) ==
    /\ config_' = CliHashConfig(o)
    /\ opts' = CliFlags(o)
    /\ obf_config_' = CliObfuscationConfig(CliFlags(o))
    /\ IF o.input_file \in DOMAIN files
       THEN /\ source_code' = files[o.input_file]
            /\ unit' = regexMatches(files[o.input_file])
            /\ obfuscated_code' = [obfuscated_code EXCEPT ![1] =
                   IF o.output_file \in unwritable THEN Unwritable ELSE NoFile]
            /\ pc' = [pc EXCEPT ![1] = "analyze"]
            /\ call' = Running(argv)
       ELSE /\ pc' = [pc EXCEPT ![1] = "exited"]
            /\ call' = Ended(argv, "return", 1)
            /\ UNCHANGED <<source_code, unit, obfuscated_code>>

\* main() from its start: parseOptions, then the configuration and the start
\* of the core, or the end of the process.
MainBegin(argv, files, unwritable) ==
    /\ pc[1] = "main"
    /\ \E parsed \in {parseOptions(argv)} :
          CASE parsed.kind = "true" -> StartCore(argv, parsed.opts, files, unwritable)
            [] parsed.kind = "false" ->
                  /\ call' = Ended(argv, "return", 1)
                  /\ pc' = [pc EXCEPT ![1] = "exited"]
                  /\ UNCHANGED <<config_, opts, obf_config_, source_code, unit,
                                 obfuscated_code>>
            [] parsed.kind = "exit" ->
                  /\ call' = Ended(argv, "exit", 0)
                  /\ pc' = [pc EXCEPT ![1] = "exited"]
                  /\ UNCHANGED <<config_, opts, obf_config_, source_code, unit,
                                 obfuscated_code>>
            [] parsed.kind = "throw" ->
                  /\ call' = Ended(argv, "terminate", 134)
                  /\ pc' = [pc EXCEPT ![1] = "exited"]
                  /\ UNCHANGED <<config_, opts, obf_config_, source_code, unit,
                                 obfuscated_code>>
    /\ UNCHANGED <<oracle, used_hashes_, manglerVars, symbols, mapping, mappings_,
                   mapping_file, used_names_, idx, passVars>>

\* main() after obfuscateSymbols: the summary and return 0, or the catch
\* block and return 1.
MainEnd ==
    /\ call.op = "main"
    /\ ~call.ended
    /\ pc[1] \in {"done", "failed"}
    /\ call' = Ended(call.argv, "return", IF pc[1] = "done" THEN 0 ELSE 1)
    /\ pc' = [pc EXCEPT ![1] = "exited"]
    /\ UNCHANGED <<hasherVars, manglerVars, textVars, used_names_, idx, passVars>>


\* ------------------------------------------------------- command line spec
\* The command lines, the files that exist and the paths that cannot be
\* opened for writing.
A_in_c == <<"i", "n", ".", "c">>
A_out_c == <<"o", "u", "t", ".", "c">>
A_nofile_c == <<"n", "o", "f", "i", "l", "e", ".", "c">>
A_ro_out_c == <<"/", "r", "o", "/", "o", "u", "t", ".", "c">>
A_md5 == <<"m", "d", "5">>
A_fancy == <<"f", "a", "n", "c", "y">>
A_8 == <<"8">>
A_dash_x == <<"-", "x">>
A_map_json == <<"m", "a", "p", ".", "j", "s", "o", "n">>

CommandLines ==
    {<<A_in_c, K_o, A_out_c>>,
     <<K_o, A_out_c, A_in_c, K_l, A_8>>,
     <<A_in_c, K_o, A_out_c, K_l, A_x>>,
     <<A_in_c, K_o, A_out_c, K_length, A_minus1>>,
     <<A_in_c, K_o, A_out_c, K_l, A_0>>,
     <<A_in_c, K_o, A_out_c, K_a, A_md5>>,
     <<A_in_c, K_output, A_out_c, K_a, K_siphash, K_p, K_none, K_s, S_k>>,
     <<A_in_c, K_o, A_out_c, K_a, K_blake2b, K_prefix, K_underscore>>,
     <<A_in_c, K_o, A_out_c, K_p, A_fancy>>,
     <<A_in_c, K_o, A_out_c, A_dash_x>>,
     <<K_o, A_out_c>>,
     <<A_in_c>>,
     <<A_nofile_c, K_o, A_out_c>>,
     <<K_h>>,
     <<A_in_c, K_o, A_ro_out_c, K_no_map, K_no_preserve_main>>,
     <<A_in_c, K_o, A_out_c, K_l>>,
     <<A_in_c, K_o, A_out_c, K_no_preserve_stdlib, K_cpp, K_v, K_m, A_map_json,
       K_a, K_sha256, K_p, K_typed>>}

InputFiles == [f \in {A_in_c} |-> U_shadow]

UnwritablePaths == {A_ro_out_c}

InitCli ==
    /\ config_ = DefaultHashConfig
    /\ oracle = <<>>
    /\ used_hashes_ = [r \in Runs |-> {}]
    /\ call = NoCall
    /\ InitMangler
    /\ InitTextIdle
    /\ used_names_ = [r \in Runs |-> {}]
    /\ pc = [r \in Runs |-> IF r = 1 THEN "main" ELSE "idle"]
    /\ idx = [r \in Runs |-> 0]
    /\ InitPassIdle

NextCli ==
    \/ \E argv \in CommandLines : MainBegin(argv, InputFiles, UnwritablePaths)
    \/ AnalyzeSymbols(1)
    \/ GenerateMappingStep(1)
    \/ FinishObfuscateSymbols(1)
    \/ MainEnd

SpecCli == InitCli /\ [][NextCli]_vars

\* The command line gives `-l` / `--length` a value without any digit.
NonNumericLength(argv) ==
    \E i \in 1..(Len(argv) - 1) :
        /\ argv[i] \in {K_l, K_length}
        /\ \A j \in 1..Len(argv[i + 1]) : ~IsDigit(argv[i + 1][j])

\* C20: the process ends by returning from main (or exit) with status 0 or 1
\* and in no other way; a non-numeric `-l` value ends it with status 1; a run
\* whose core failed ends with status 1 and one whose core finished with 0.
C20_ExitStatus ==
    (call.op = "main" /\ call.ended) =>
        /\ call.how \in {"return", "exit"}
        /\ call.status \in {0, 1}
        /\ NonNumericLength(call.argv) => call.status = 1
        /\ obfuscated_code[1].exists => call.status = 0

\* -------------------------------------------------------- mapping file spec
\* The entries the obfuscators hold: every field takes more than one value,
\* and two source_file values need escaping in the file.
F_a_c == <<"a", ".", "c">>
F_backslash == <<"d", "\\", "x", ".", "c">>
F_quote == <<"\"", "q", "\"", ".", "c">>

Entry(original, obfuscated, type, linkage, address, size, source_file, line) ==
    [original_name |-> original, obfuscated_name |-> obfuscated, type |-> type,
     linkage |-> linkage, address |-> address, size |-> size,
     source_file |-> source_file, line_number |-> line]

MapEntries ==
    {Entry(S_foo, O_f, "FUNCTION", "EXTERNAL", 0, 0, <<>>, 0),
     Entry(S_bar, O_v, "GLOBAL_VAR", "INTERNAL", 4096, 8, F_a_c, 12),
     Entry(S_a, O_us, "STRUCT", "WEAK", 1, 10, F_backslash, -1),
     Entry(S_aa, O_f, "UNKNOWN", "COMMON", 7, 300, F_quote, 105)}

MapLists ==
    {<<>>} \cup {<<e>> : e \in MapEntries}
    \cup {<<e1, e2>> : e1 \in MapEntries, e2 \in MapEntries}

\* Obfuscator r calls exportMapping(file_path) with its own mapping file.
ExportMappingCall(r) ==
    /\ mapping_file' = [mapping_file EXCEPT ![r] =
                            exportMapping(mappings_[r], config_.algorithm)]
    /\ call' = [op |-> "exportMapping", by |-> r, threw |-> FALSE]
    /\ UNCHANGED <<hasherVars, manglerVars, opts, obf_config_, unit, symbols, mapping,
                   mappings_, source_code, obfuscated_code, runVars, passVars>>

\* Obfuscator r calls importMapping on the file obfuscator q writes: a file
\* that does not parse (here: was never written) raises runtime_error.
ImportMappingCall(r, q) ==
    /\ IF mapping_file[q].exists
       THEN /\ mappings_' = [mappings_ EXCEPT ![r] = importMapping(mapping_file[q])]
            /\ call' = [op |-> "importMapping", by |-> r, from |-> q, threw |-> FALSE,
                        held_before |-> mappings_[r]]
       ELSE /\ mappings_' = mappings_
            /\ call' = [op |-> "importMapping", by |-> r, from |-> q, threw |-> TRUE,
                        held_before |-> mappings_[r]]
    /\ UNCHANGED <<hasherVars, manglerVars, opts, obf_config_, unit, symbols, mapping,
                   source_code, obfuscated_code, mapping_file, runVars, passVars>>

\* Two obfuscators holding any lists; the first exports, the second imports
\* the first one's file.
InitMapFile ==
    /\ config_ \in {[DefaultHashConfig EXCEPT !.algorithm = a] : a \in Algorithms}
    /\ oracle = <<>>
    /\ used_hashes_ = [r \in Runs |-> {}]
    /\ call = NoCall
    /\ InitMangler
    /\ opts = DefaultCliOptions
    /\ obf_config_ = CliObfuscationConfig(DefaultCliOptions)
    /\ unit = <<>>
    /\ symbols = [r \in Runs |-> <<>>]
    /\ mapping = [r \in Runs |-> EmptyMap]
    /\ mappings_ \in [Runs -> MapLists]
    /\ source_code = <<>>
    /\ obfuscated_code = [r \in Runs |-> NoFile]
    /\ mapping_file = [r \in Runs |-> NoFile]
    /\ InitRunsIdle
    /\ InitPassIdle

NextMapFile == ExportMappingCall(1) \/ ImportMappingCall(2, 1)

SpecMapFile == InitMapFile /\ [][NextMapFile]_vars

\* C18: after exportMapping by one obfuscator and importMapping of that file
\* by another, the importer holds a list equal to the exporter's: the same
\* entries in the same order with all eight fields equal.
C18_MappingRoundTrip ==
    (call.op = "importMapping" /\ ~call.threw) =>
        mappings_[call.by] = mappings_[call.from]

\* An import that replaced a different list by a two-entry list whose
\* source_file values needed escaping and whose line number is negative.
C18_Witness ==
    /\ call.op = "importMapping"
    /\ ~call.threw
    /\ call.held_before # mappings_[call.by]
    /\ Len(mappings_[call.by]) = 2
    /\ \E i \in 1..2 : mappings_[call.by][i].source_file = F_backslash
    /\ \E i \in 1..2 : mappings_[call.by][i].source_file = F_quote
    /\ \E i \in 1..2 : mappings_[call.by][i].line_number < 0

\* --------------------------------------------------- both kinds of unit
\* The driver on either kind of translation unit: a source text or an IR module.
InitUnits == InitOneRun \/ InitPass

NextUnits == NextText \/ NextPass

SpecUnits == InitUnits /\ [][NextUnits]_vars

\* A name the configuration asks to keep: it is in the explicit preserve set,
\* starts with a preserve pattern, or is a language keyword; for an IR value,
\* it is in the pass's preserve set or is a reserved (`__`, `llvm.`) name.
KeptVerbatim(name) ==
    \/ name \in obf_config_.preserve_symbols
    \/ \E i \in 1..Len(obf_config_.preserve_patterns) :
          StartsWith(name, obf_config_.preserve_patterns[i])
    \/ name \in cpp_keywords

KeptInModule(value) ==
    \/ value.is_declaration
    \/ value.original \in preserve_symbols_
    \/ StartsWith(value.original, S_uu)
    \/ StartsWith(value.original, S_llvm_dot)

ModuleValues(m) ==
    {m.functions[i] : i \in 1..Len(m.functions)}
    \cup {m.globals[i] : i \in 1..Len(m.globals)}
    \cup {m.aliases[i] : i \in 1..Len(m.aliases)}

=============================================================================
